---- MODULE Spec2Model ----
(***************************************************************************)
(* Chain-state reconciliation of the Privy / EAS demo: the helpers of      *)
(* utils/wallet-chain-helpers (parseChainId, resolveProvider,              *)
(* detectChainId, switchWalletChain, waitForChainChangeEvent,              *)
(* switchWalletChainWithConfirmation) and the submit flow of               *)
(* LocationAttestationFormCard, as state machines over the JavaScript      *)
(* event loop: every await, timer and event delivery is one step.          *)
(*                                                                         *)
(* Four specifications share the module:                                   *)
(*   Spec        one call of switchWalletChainWithConfirmation             *)
(*   SpecWait    one call of waitForChainChangeEvent                       *)
(*   SpecSubmit  the form's onSubmit flow                                  *)
(*   SpecHelpers the helpers called on their own, over bounded inputs      *)
(***************************************************************************)
EXTENDS Integers, Sequences, FiniteSets, TLC

(***************************************************************************)
(* JavaScript values.  A value is a record tagged by t; strings are        *)
(* sequences of one-character strings so that parsing and formatting are   *)
(* computed digit by digit.                                                *)
(***************************************************************************)
Null == [t |-> "null"]
Undefined == [t |-> "undefined"]
NaN == [t |-> "nan"]
Obj == [t |-> "object"]
Num(n) == [t |-> "number", n |-> n]
Str(s) == [t |-> "string", s |-> s]

HexDigits == <<"0", "1", "2", "3", "4", "5", "6", "7", "8", "9",
               "a", "b", "c", "d", "e", "f">>
UpperHex == <<"A", "B", "C", "D", "E", "F">>
DecDigits == {HexDigits[i] : i \in 1..10}

IsHexDigit(c) == (\E i \in 1..16 : HexDigits[i] = c) \/ (\E i \in 1..6 : UpperHex[i] = c)
HexVal(c) ==
  IF \E i \in 1..16 : HexDigits[i] = c
  THEN (CHOOSE i \in 1..16 : HexDigits[i] = c) - 1
  ELSE (CHOOSE i \in 1..6 : UpperHex[i] = c) + 9

RECURSIVE ToDigits(_, _)
\* Number.prototype.toString(radix) of a non-negative integer.
ToDigits(n, radix) ==
  IF n < radix THEN <<HexDigits[n + 1]>>
  ELSE ToDigits(n \div radix, radix) \o <<HexDigits[(n % radix) + 1]>>

\* `0x${desiredChainId.toString(16)}`
ToHexString(n) == <<"0", "x">> \o ToDigits(n, 16)

StartsWith(s, p) == Len(s) >= Len(p) /\ SubSeq(s, 1, Len(p)) = p
Slice(s, from) == SubSeq(s, from + 1, Len(s))

RECURSIVE DigitPrefixLen(_, _)
\* length of the longest prefix of s made of digits of the radix
DigitPrefixLen(s, radix) ==
  IF s = <<>> \/ ~IsHexDigit(Head(s)) THEN 0
  ELSE IF HexVal(Head(s)) >= radix THEN 0
  ELSE 1 + DigitPrefixLen(Tail(s), radix)

RECURSIVE DigitsValue(_, _, _)
DigitsValue(s, radix, acc) ==
  IF s = <<>> THEN acc
  ELSE DigitsValue(Tail(s), radix, acc * radix + HexVal(Head(s)))

\* parseInt(s, 16): optional sign, optional 0x prefix, then the longest run
\* of hex digits; NaN when the run is empty.
ParseInt16(s) ==
  LET neg == s # <<>> /\ Head(s) = "-"
      s1 == IF s # <<>> /\ Head(s) \in {"-", "+"} THEN Tail(s) ELSE s
      s2 == IF StartsWith(s1, <<"0", "x">>) \/ StartsWith(s1, <<"0", "X">>)
            THEN Slice(s1, 2) ELSE s1
      k == DigitPrefixLen(s2, 16)
      v == DigitsValue(SubSeq(s2, 1, k), 16, 0)
  IN IF k = 0 THEN NaN ELSE Num(IF neg THEN 0 - v ELSE v)

\* Number(s) for the string shapes of the model: the empty string is 0, a
\* 0x literal is read in hexadecimal, an optionally signed run of decimal
\* digits in decimal, every other string is NaN.
ToNumber(s) ==
  LET neg == s # <<>> /\ Head(s) = "-"
      s1 == IF s # <<>> /\ Head(s) \in {"-", "+"} THEN Tail(s) ELSE s
  IN IF s = <<>> THEN Num(0)
     ELSE IF StartsWith(s, <<"0", "x">>) \/ StartsWith(s, <<"0", "X">>)
       THEN IF Len(s) > 2 /\ DigitPrefixLen(Slice(s, 2), 16) = Len(s) - 2
            THEN Num(DigitsValue(Slice(s, 2), 16, 0)) ELSE NaN
     ELSE IF s1 # <<>> /\ DigitPrefixLen(s1, 10) = Len(s1)
       THEN Num(IF neg THEN 0 - DigitsValue(s1, 10, 0) ELSE DigitsValue(s1, 10, 0))
     ELSE NaN

\* value.split(':')[1]: the text between the first and the second colon
RECURSIVE UpToColon(_)
UpToColon(s) ==
  IF s = <<>> \/ Head(s) = ":" THEN <<>> ELSE <<Head(s)>> \o UpToColon(Tail(s))

Eip155Prefix == <<"e", "i", "p", "1", "5", "5", ":">>

NullIfNaN(v) == IF v = NaN THEN Null ELSE v

\* parseChainId(value)
parseChainId(value) ==
  IF value.t \in {"number", "nan"} THEN value
  ELSE IF value.t \in {"null", "undefined"} THEN Null
  ELSE IF value.t = "string" THEN
    IF value.s = <<>> THEN Null
    ELSE IF StartsWith(value.s, Eip155Prefix)
      THEN NullIfNaN(ToNumber(UpToColon(Slice(value.s, Len(Eip155Prefix)))))
    ELSE IF StartsWith(value.s, <<"0", "x">>)
      THEN NullIfNaN(ParseInt16(Slice(value.s, 2)))
    ELSE NullIfNaN(ToNumber(value.s))
  ELSE Null


(***************************************************************************)
(* Providers, signers and wallet records: the capability surfaces the      *)
(* helpers probe with typeof checks.                                       *)
(*   getNetwork  "absent" | "number" (chainId is a number) | "bigint"      *)
(*               (chainId is not a number) | "throws"                      *)
(*   request     "absent" | "hex" (eth_chainId answers a 0x string) |      *)
(*               "nonstring" | "throws"                                    *)
(*   chainId     the raw chainId property (legacy wrappers)                *)
(*   on          "absent" | "ok" | "throws"  (provider.on('network', ..));   *)
(*               removeListener comes with on (an event emitter)           *)
(***************************************************************************)
Provider(id, gn, rq, prop, on) ==
  [t |-> "provider", id |-> id, getNetwork |-> gn, request |-> rq,
   chainId |-> prop, on |-> on, removeListener |-> on # "absent",
   network |-> Undefined]
\* an address: 0x and hex digits of either case
Address(digits) == Str(<<"0", "x">> \o digits)
\* a signer; getAddress answers `address`, or throws when it is Throws
Signer(prov) == [t |-> "signer", provider |-> prov, address |-> Address(<<"A", "b">>)]
Throws == [t |-> "throws"]
Wallet(type, prov, accessor, cid) ==
  [t |-> "wallet", walletClientType |-> type, provider |-> prov,
   getEthereumProvider |-> accessor, chainId |-> cid, address |-> Address(<<"a", "b">>)]

Nullish(v) == v.t \in {"null", "undefined"}
\* v ?? w
Coalesce(v, w) == IF Nullish(v) THEN w ELSE v
\* !v for the values of the model
Falsy(v) ==
  \/ Nullish(v)
  \/ v.t = "nan"
  \/ (v.t = "number" /\ v.n = 0)
  \/ (v.t = "string" /\ IF "s" \in DOMAIN v THEN v.s = <<>> ELSE v.text = "")

\* what wallet.getEthereumProvider() resolves to; a rejection is swallowed
AccessorResult(wallet) ==
  IF wallet.getEthereumProvider.t = "provider" THEN wallet.getEthereumProvider
  ELSE Null

\* a resolution that prefers the wallet's provider field
resolveProviderWalletFirst(signer, prov, wallet) ==
  LET wagmiProv == Coalesce(IF Nullish(signer) THEN Undefined ELSE signer.provider, prov)
  IN IF ~Falsy(wallet) /\ ~Falsy(wallet.provider) THEN wallet.provider
     ELSE Coalesce(wagmiProv, Null)

\* resolveProvider(wagmiSigner, wagmiProvider, wallet)
resolveProvider(signer, prov, wallet) ==
  LET wagmiProv == Coalesce(IF Nullish(signer) THEN Undefined ELSE signer.provider, prov)
      provider == Coalesce(wagmiProv, Null)
  IN IF Falsy(provider) /\ ~Falsy(wallet)
     THEN LET own == Coalesce(wallet.provider, Null)
          IN IF Falsy(own) /\ wallet.getEthereumProvider.t # "undefined"
             THEN AccessorResult(wallet)
             ELSE own
     ELSE provider

\* whether resolveProvider calls wallet.getEthereumProvider()
AccessorInvoked(signer, prov, wallet) ==
  LET wagmiProv == Coalesce(IF Nullish(signer) THEN Undefined ELSE signer.provider, prov)
  IN /\ Falsy(Coalesce(wagmiProv, Null))
     /\ ~Falsy(wallet)
     /\ Falsy(Coalesce(wallet.provider, Null))
     /\ wallet.getEthereumProvider.t # "undefined"

\* detectChainId(provider, wallet) while the wallet is on chain `actual`:
\* the chain id of the first strategy that yields one.
Strategy1(provider, actual) ==
  IF ~Falsy(provider) /\ provider.getNetwork = "number" THEN Num(actual) ELSE Null
Strategy2(provider, actual) ==
  IF ~Falsy(provider) /\ provider.request = "hex"
  THEN parseChainId(Str(ToHexString(actual))) ELSE Null
Strategy3(wallet) ==
  IF ~Falsy(wallet) THEN parseChainId(wallet.chainId) ELSE Null
Strategy4(provider) ==
  IF ~Falsy(provider) /\ ~Falsy(provider.chainId) THEN parseChainId(provider.chainId) ELSE Null

\* a detection that consults the wallet record first
detectChainIdWalletFirst(provider, wallet, actual) ==
  IF Strategy3(wallet) # Null THEN Strategy3(wallet)
  ELSE IF Strategy1(provider, actual) # Null THEN Strategy1(provider, actual)
  ELSE IF Strategy2(provider, actual) # Null THEN Strategy2(provider, actual)
  ELSE Strategy4(provider)

detectChainId(provider, wallet, actual) ==
  IF Strategy1(provider, actual) # Null THEN Strategy1(provider, actual)
  ELSE IF Strategy2(provider, actual) # Null THEN Strategy2(provider, actual)
  ELSE IF Strategy3(wallet) # Null THEN Strategy3(wallet)
  ELSE Strategy4(provider)

\* the strategies detectChainId enters, in order: a strategy is entered when
\* its guard holds and no earlier one returned
DetectAttempts(provider, wallet, actual) ==
  LET a1 == IF ~Falsy(provider) /\ provider.getNetwork # "absent" THEN <<1>> ELSE <<>>
      a2 == IF ~Falsy(provider) /\ provider.request # "absent" THEN <<2>> ELSE <<>>
      a3 == IF ~Falsy(wallet) THEN <<3>> ELSE <<>>
      a4 == IF ~Falsy(provider) /\ ~Falsy(provider.chainId) THEN <<4>> ELSE <<>>
  IN IF Strategy1(provider, actual) # Null THEN a1
     ELSE IF Strategy2(provider, actual) # Null THEN a1 \o a2
     ELSE IF Strategy3(wallet) # Null THEN a1 \o a2 \o a3
     ELSE a1 \o a2 \o a3 \o a4


(***************************************************************************)
(* Bounds of the model.                                                    *)
(***************************************************************************)
\* chainChanged events the wallet emits in one behaviour
MaxEvents == 2
\* submissions the user begins in one behaviour
MaxSubmits == 1

(***************************************************************************)
(* Program constants.                                                      *)
(***************************************************************************)
DefaultTimeoutMs == 10000
ProbeDelayMs == 2000
WaitDefaultTimeoutMs == 8000
CodeChainNotConfigured == 4902
CodeUserRejected == 4001

InjectedWalletTypes == {"metamask", "coinbase_wallet", "rainbow", "wallet_connect"}

\* chain ids of the scenarios: mainnet and Base
Chains == {1, 8453}
\* what a chainChanged event can carry: the 0x id of a chain, or a payload
\* that does not parse
Payloads == {Str(ToHexString(c)) : c \in Chains} \cup {Str(<<"0", "x">>)}

Text(m) == [t |-> "string", text |-> m]

VARIABLES
  desiredChainId,   \* argument: the requested chain
  wagmiSigner,      \* argument: signer or Undefined
  wagmiProvider,    \* argument: provider or Undefined
  wallet,           \* argument: wallet record or Undefined
  options,          \* argument: [timeoutMs, onChainDetected]
  ethereum,         \* window.ethereum: Undefined or its surface
  walletChain,      \* the chain the wallet is on
  ethListeners,     \* handlers registered for 'chainChanged' on window.ethereum
  provListeners,    \* handlers registered for 'network' on the provider
  requests,         \* JSON-RPC requests dispatched so far
  emitLog,          \* chainChanged events emitted so far
  pc,               \* switchWalletChainWithConfirmation: position
  settled,          \* its `settled` flag
  timeout,          \* its confirmation timer
  probeTimer,       \* its 2 s fallback timer
  callbackCalls,    \* arguments onChainDetected was invoked with
  rejectedWith,     \* what the switch request rejected with, if it did
  outcome,          \* how the call completed
  waitProvider,     \* waitForChainChangeEvent: its provider argument
  waitMs,           \* its timeoutMs argument
  wPc,              \* its position
  wSettled,         \* its `settled` flag
  timer,            \* its timer
  attached,         \* the subscriptions it made, in order
  resolved,         \* what its promise resolved with
  chainIdProp,      \* the form: the chainId prop of the header
  wallets,          \* useWallets().wallets
  schemaInfo,       \* chain metadata of the active chain, or Null
  status,           \* SubmitStatus
  response,         \* the response state
  errorInfo,        \* the error caught by onSubmit
  fPc,              \* onSubmit: position
  signer,           \* its signer
  selectedWallet,   \* its selectedWallet
  actualChainId,    \* verifyWalletChain: actualChainId
  attests,          \* eas.attest calls so far
  submitLog,        \* the chain the wallet was on at each click that began a submission
  observedChain,    \* the chain verifyWalletChain last observed in the submission under way
  call,             \* a helper called on its own: its arguments, what it did and its outcome
  flights,          \* the form: the position of every submission begun, in order
  recordedBy,       \* the submission whose outcome the form state holds, 0 for none
  effectRuns,       \* the chain watcher: [mounted, probe, handler] of every run of the effect
  detectedWalletChain, \* the detectedWalletChain state
  componentMounted  \* whether the form is mounted

args == <<desiredChainId, wagmiSigner, wagmiProvider, wallet, options, ethereum>>
world == <<walletChain, ethListeners, provListeners, requests, emitLog>>
swVars == <<pc, settled, timeout, probeTimer, callbackCalls, rejectedWith, outcome>>
wfVars == <<waitProvider, waitMs, wPc, wSettled, timer, attached, resolved>>
formVars == <<chainIdProp, wallets, schemaInfo, status, response, errorInfo, fPc, signer,
              selectedWallet, actualChainId, attests, submitLog, observedChain>>
helperVars == <<call>>
pageVars == <<flights, recordedBy, effectRuns, detectedWalletChain, componentMounted>>
vars == <<args, world, swVars, wfVars, formVars, helperVars, pageVars>>

Unset == [state |-> "unset", ms |-> 0]
Armed(ms) == [state |-> "armed", ms |-> ms]
Cleared(tm) == [tm EXCEPT !.state = "cleared"]
Fired(tm) == [tm EXCEPT !.state = "fired"]

NoError == [t |-> "none"]
Pending == [kind |-> "pending"]
Returned(r) == [kind |-> "return", value |-> r]
Thrown(e) == [kind |-> "throw", error |-> e]
SwitchResult(ok, cid, err) == [success |-> ok, newChainId |-> cid, error |-> err]

Ethereum(rq, on, rm) == [t |-> "ethereum", request |-> rq, on |-> on, removeListener |-> rm]

(***************************************************************************)
(* switchWalletChainWithConfirmation                                       *)
(***************************************************************************)
\* options?.timeoutMs ?? 10000
timeoutMs == IF options.timeoutMs.t = "number" THEN options.timeoutMs.n ELSE DefaultTimeoutMs

\* wallet?.walletClientType && [...].includes(wallet.walletClientType)
isInjectedWallet ==
  ~Nullish(wallet) /\ wallet.walletClientType \in InjectedWalletTypes

WalletHasProvider == ~Nullish(wallet) /\ ~Falsy(wallet.provider)

\* if (isInjectedWallet || !wallet?.provider) ... else if privy ... else
Branch ==
  IF isInjectedWallet \/ ~WalletHasProvider THEN "injected"
  ELSE IF wallet.walletClientType = "privy" THEN "embedded"
  ELSE "generic"

EthHasRequest == ethereum.t = "ethereum" /\ ethereum.request
EthHasOn == ethereum.t = "ethereum" /\ ethereum.on # "absent"

SwitchRequest(target) ==
  [target |-> target, method |-> "wallet_switchEthereumChain",
   chainId |-> ToHexString(desiredChainId)]

\* The rejections a wallet answers a switch request with.
Rejections == {
  [t |-> "error", code |-> CodeChainNotConfigured, message |-> Text("Unrecognized chain ID")],
  [t |-> "error", code |-> CodeUserRejected, message |-> Text("User rejected the request.")],
  [t |-> "error", code |-> 0 - 32603, message |-> Text("Internal JSON-RPC error.")],
  [t |-> "error", code |-> 0 - 32000, message |-> Undefined],
  [t |-> "error", code |-> 0 - 32002, message |-> Text("")],
  Null }

TypeErrorOnNull == [t |-> "error", message |-> Text("Cannot read properties of null (reading 'code')")]

\* a top-level catch that rethrows
TopLevelCatchRethrows(err) == Thrown(err)

\* a top-level catch without the UNKNOWN_ERROR fallback
TopLevelCatchNoFallback(err) ==
  Returned(SwitchResult(FALSE, Null, IF Nullish(err) THEN Undefined ELSE err.message))

\* the top-level catch: error: err?.message ?? 'UNKNOWN_ERROR'
TopLevelCatch(err) ==
  Returned(SwitchResult(FALSE, Null,
    IF Nullish(err) THEN Text("UNKNOWN_ERROR")
    ELSE Coalesce(err.message, Text("UNKNOWN_ERROR"))))

\* a catch around window.ethereum.request that tells no code apart
SwitchErrorOutcomeNoCodes(switchError) ==
  TopLevelCatch(IF Nullish(switchError) THEN TypeErrorOnNull ELSE switchError)

\* the catch around window.ethereum.request
SwitchErrorOutcome(switchError) ==
  IF Nullish(switchError) THEN TopLevelCatch(TypeErrorOnNull)
  ELSE IF switchError.code = CodeChainNotConfigured
    THEN Returned(SwitchResult(FALSE, Null, Text("CHAIN_NOT_CONFIGURED")))
  ELSE IF switchError.code = CodeUserRejected
    THEN Returned(SwitchResult(FALSE, Null, Text("USER_REJECTED")))
  ELSE TopLevelCatch(switchError)

\* a catch that rethrows the failure as it came
WrapSwitchFailureBare(switchErr) == switchErr

\* switchWalletChain's catch: the failure wrapped with its diagnostic
\* `Failed to switch wallet to chain ${id}: ${e?.message ?? String(e)}`
WrapSwitchFailure(switchErr) ==
  [t |-> "error",
   message |-> Text("Failed to switch wallet to chain " \o ToString(desiredChainId) \o ": "
                    \o (IF Nullish(switchErr) THEN "null"
                        ELSE Coalesce(switchErr.message, Text("[object Object]")).text)),
   diagnostic |-> [cause |-> switchErr, requestedChainId |-> desiredChainId]]

\* handleChainChanged is registered on window.ethereum
Listening == \E i \in 1..Len(ethListeners) : ethListeners[i] = "handleChainChanged"

RECURSIVE RemoveFirst(_, _)
\* emitter.removeListener(name, h): the first registration of h is dropped
RemoveFirst(s, h) ==
  IF s = <<>> THEN <<>>
  ELSE IF Head(s) = h THEN Tail(s)
  ELSE <<Head(s)>> \o RemoveFirst(Tail(s), h)

\* anyWindow?.ethereum?.removeListener && anyWindow.ethereum.removeListener(..)
RemoveEthListener(ls, h) ==
  IF ethereum.t = "ethereum" /\ ethereum.removeListener THEN RemoveFirst(ls, h) ELSE ls

\* the promise executor of the confirmation wait: arm the timer, then attach
\* the listener, or fall back to the delayed probe
BeginConfirmation ==
  /\ settled' = FALSE
  /\ IF EthHasOn /\ ethereum.on = "ok"
     THEN /\ timeout' = Armed(timeoutMs)
          /\ ethListeners' = Append(ethListeners, "handleChainChanged")
          /\ probeTimer' = probeTimer
          /\ pc' = "waitEvent"
     ELSE /\ timeout' = Cleared(Armed(timeoutMs))
          /\ ethListeners' = ethListeners
          /\ probeTimer' = Armed(ProbeDelayMs)
          /\ pc' = IF EthHasOn THEN "probeDelayCatch" ELSE "probeDelay"
  /\ outcome' = outcome
  /\ callbackCalls' = callbackCalls
  /\ rejectedWith' = rejectedWith

Finish(o) ==
  /\ outcome' = o
  /\ pc' = "returned"

\* Entry up to the first await: the branch on the wallet type and the
\* dispatch of the switch request.
Enter ==
  /\ pc = "start"
  /\ CASE Branch = "injected" /\ EthHasRequest ->
            /\ requests' = Append(requests, SwitchRequest("window.ethereum"))
            /\ pc' = "awaitSwitch"
            /\ UNCHANGED <<outcome, settled, timeout, probeTimer, callbackCalls, rejectedWith, ethListeners>>
       [] Branch = "injected" /\ ~EthHasRequest ->
            /\ Finish(Returned(SwitchResult(FALSE, Null, Text("NO_PROVIDER"))))
            /\ UNCHANGED <<requests, settled, timeout, probeTimer, callbackCalls, rejectedWith, ethListeners>>
       [] Branch = "embedded" ->
            /\ Finish(Returned(SwitchResult(FALSE, Null, Text("EMBEDDED_WALLET_UNSUPPORTED"))))
            /\ UNCHANGED <<requests, settled, timeout, probeTimer, callbackCalls, rejectedWith, ethListeners>>
       [] Branch = "generic" ->
            LET provider == resolveProvider(wagmiSigner, wagmiProvider, wallet)
            IN IF ~Falsy(provider) /\ provider.request # "absent"
               THEN /\ requests' = Append(requests, SwitchRequest(provider.id))
                    /\ pc' = "awaitGeneric"
                    /\ UNCHANGED <<outcome, settled, timeout, probeTimer, callbackCalls, rejectedWith, ethListeners>>
               ELSE /\ BeginConfirmation
                    /\ requests' = requests
  /\ UNCHANGED <<args, helperVars, pageVars, walletChain, provListeners, emitLog, wfVars, formVars>>

\* window.ethereum.request(wallet_switchEthereumChain) resolves
SwitchAccepted ==
  /\ pc = "awaitSwitch"
  /\ BeginConfirmation
  /\ UNCHANGED <<args, helperVars, pageVars, walletChain, provListeners, requests, emitLog, wfVars, formVars>>

\* window.ethereum.request(wallet_switchEthereumChain) rejects
SwitchRejected ==
  /\ pc = "awaitSwitch"
  /\ \E e \in Rejections : rejectedWith' = e /\ Finish(SwitchErrorOutcome(e))
  /\ UNCHANGED <<args, helperVars, pageVars, world, settled, timeout, probeTimer, callbackCalls, wfVars, formVars>>

\* switchWalletChain's provider.request resolves
GenericAccepted ==
  /\ pc = "awaitGeneric"
  /\ BeginConfirmation
  /\ UNCHANGED <<args, helperVars, pageVars, walletChain, provListeners, requests, emitLog, wfVars, formVars>>

\* switchWalletChain's provider.request rejects: wrapped, then caught at the
\* top level
GenericRejected ==
  /\ pc = "awaitGeneric"
  /\ \E e \in Rejections : rejectedWith' = e /\ Finish(TopLevelCatch(WrapSwitchFailure(e)))
  /\ UNCHANGED <<args, helperVars, pageVars, world, settled, timeout, probeTimer, callbackCalls, wfVars, formVars>>

\* handleChainChanged(chainHex), run by the emitter for a registered listener
HandleChainChanged(chainHex) ==
  LET newChain == parseChainId(chainHex)
  IN IF settled \/ newChain # Num(desiredChainId)
     THEN UNCHANGED <<swVars, ethListeners>>
     ELSE /\ settled' = TRUE
          /\ timeout' = Cleared(timeout)
          /\ probeTimer' = probeTimer
          /\ rejectedWith' = rejectedWith
          /\ callbackCalls' = IF options.onChainDetected = "absent" THEN callbackCalls
                              ELSE Append(callbackCalls, newChain)
          /\ IF options.onChainDetected = "throws"
             \* the throw lands in the handler's own catch: no cleanup, no resolve
             THEN UNCHANGED <<pc, outcome, ethListeners>>
             ELSE /\ ethListeners' = RemoveEthListener(ethListeners, "handleChainChanged")
                  /\ Finish(Returned(SwitchResult(TRUE, newChain, Undefined)))

\* The wallet emits chainChanged: it is now on the chain the payload names,
\* and every registered listener runs.  Events are followed from the entry
\* of the call for as long as the call is in flight or its listener is
\* registered.
WalletEmits ==
  /\ Len(emitLog) < MaxEvents
  /\ EthHasOn
  /\ pc # "start"
  /\ pc = "returned" => Listening
  /\ \E chainHex \in Payloads :
       /\ walletChain' = IF parseChainId(chainHex) = Null THEN walletChain
                         ELSE parseChainId(chainHex).n
       /\ emitLog' = Append(emitLog, [payload |-> chainHex, pc |-> pc, heard |-> Listening,
                                      settled |-> settled, timer |-> timeout.state])
       /\ IF Listening THEN HandleChainChanged(chainHex)
          ELSE UNCHANGED <<swVars, ethListeners>>
  /\ UNCHANGED <<args, helperVars, pageVars, provListeners, requests, wfVars, formVars>>

\* a confirmation timer whose callback resolves nothing
TimeoutFiresSilent ==
  /\ timeout.state = "armed"
  /\ timeout' = Fired(timeout)
  /\ UNCHANGED <<args, helperVars, pageVars, world, settled, pc, outcome, probeTimer, callbackCalls, rejectedWith, wfVars, formVars>>

\* the confirmation timer expires
TimeoutFires ==
  /\ timeout.state = "armed"
  /\ timeout' = Fired(timeout)
  /\ IF ~settled
     THEN /\ settled' = TRUE
          /\ Finish(Returned(SwitchResult(FALSE, Null, Text("TIMEOUT_OR_MISMATCH"))))
     ELSE UNCHANGED <<settled, pc, outcome>>
  /\ UNCHANGED <<args, helperVars, pageVars, world, probeTimer, callbackCalls, rejectedWith, wfVars, formVars>>

\* the 2 s timer of the branch without a subscription surface expires: one
\* probe through resolveProvider and detectChainId
ProbeFires ==
  /\ probeTimer.state = "armed"
  /\ pc = "probeDelay"
  /\ probeTimer' = Fired(probeTimer)
  /\ IF settled THEN UNCHANGED <<settled, pc, outcome, callbackCalls>>
     ELSE LET provider == resolveProvider(wagmiSigner, wagmiProvider, wallet)
              detectedChain == detectChainId(provider, wallet, walletChain)
          IN /\ settled' = TRUE
             /\ IF detectedChain = Num(desiredChainId)
                THEN /\ callbackCalls' = IF options.onChainDetected = "absent" THEN callbackCalls
                                         ELSE Append(callbackCalls, detectedChain)
                     /\ IF options.onChainDetected = "throws"
                        \* the async timer callback rejects: never resolved
                        THEN UNCHANGED <<pc, outcome>>
                        ELSE Finish(Returned(SwitchResult(TRUE, detectedChain, Undefined)))
                ELSE /\ callbackCalls' = callbackCalls
                     /\ Finish(Returned(SwitchResult(FALSE, detectedChain,
                                                     Text("TIMEOUT_OR_MISMATCH"))))
  /\ UNCHANGED <<args, helperVars, pageVars, world, timeout, rejectedWith, wfVars, formVars>>

\* the same probe, scheduled by the catch around the attach: no callback
ProbeFiresCatch ==
  /\ probeTimer.state = "armed"
  /\ pc = "probeDelayCatch"
  /\ probeTimer' = Fired(probeTimer)
  /\ IF settled THEN UNCHANGED <<settled, pc, outcome>>
     ELSE LET provider == resolveProvider(wagmiSigner, wagmiProvider, wallet)
              detectedChain == detectChainId(provider, wallet, walletChain)
              ok == detectedChain = Num(desiredChainId)
          IN /\ settled' = TRUE
             /\ Finish(Returned(SwitchResult(ok, detectedChain,
                                  IF ok THEN Undefined ELSE Text("TIMEOUT_OR_MISMATCH"))))
  /\ UNCHANGED <<args, helperVars, pageVars, world, timeout, callbackCalls, rejectedWith, wfVars, formVars>>

(***************************************************************************)
(* waitForChainChangeEvent                                                 *)
(***************************************************************************)
Resolved(v) == [kind |-> "resolved", value |-> v]

Network(cid) == [t |-> "network", chainId |-> cid]
BigInt == [t |-> "bigint"]
\* what a provider's 'network' event can carry as newNetwork
NetworkPayloads == {Network(Num(c)) : c \in Chains} \cup {Network(BigInt), Null}

ProviderHasOn(p) == ~Falsy(p) /\ p.on # "absent"

\* an executor that subscribes to both surfaces
SubscriptionsBoth(eth, prov) ==
  (IF eth.t = "ethereum" /\ eth.on = "ok" THEN <<"chainChanged">> ELSE <<>>)
  \o (IF ProviderHasOn(prov) /\ prov.on = "ok" THEN <<"network">> ELSE <<>>)

\* The subscriptions the executor makes: window.ethereum's chainChanged
\* when its `on` is a function that does not throw, else the provider's
\* network event when its `on` is a function that does not throw.
Subscriptions(eth, prov) ==
  IF eth.t = "ethereum" /\ eth.on = "ok" THEN <<"chainChanged">>
  ELSE IF ProviderHasOn(prov) /\ prov.on = "ok" THEN <<"network">>
  ELSE <<>>

Has(s, h) == \E i \in 1..Len(s) : s[i] = h
Count(s, h) == Cardinality({i \in 1..Len(s) : s[i] = h})

\* the promise executor: timer, handlers, attach
\* the executor of the promise waitForChainChangeEvent(provider, timeoutMs)
\* returns: it runs synchronously within the call
StartWait(provider, ms) ==
  /\ waitProvider' = provider
  /\ waitMs' = ms
  /\ wSettled' = FALSE
  /\ LET subs == Subscriptions(ethereum, provider)
     IN /\ attached' = subs
        /\ ethListeners' = IF Has(subs, "chainChanged")
                           THEN Append(ethListeners, "ethHandler") ELSE ethListeners
        /\ provListeners' = IF Has(subs, "network")
                            THEN Append(provListeners, "networkHandler") ELSE provListeners
        /\ IF subs = <<>>
           \* neither is attachable: clearTimeout(timer); resolve(null)
           THEN /\ timer' = Cleared(Armed(ms))
                /\ resolved' = Resolved(Null)
                /\ wPc' = "resolved"
           ELSE /\ timer' = Armed(ms)
                /\ resolved' = Pending
                /\ wPc' = "waiting"

WaitCall ==
  /\ wPc = "start"
  /\ StartWait(waitProvider, waitMs)
  /\ UNCHANGED <<args, helperVars, pageVars, walletChain, requests, emitLog, swVars, formVars>>

\* an ethHandler without the settled guard
EthHandlerUnguarded(chainHex) ==
  /\ wSettled' = TRUE
  /\ timer' = Cleared(timer)
  /\ ethListeners' = RemoveEthListener(ethListeners, "ethHandler")
  /\ resolved' = Resolved(parseChainId(chainHex))
  /\ wPc' = "resolved"

\* ethHandler(chainHex)
EthHandler(chainHex) ==
  IF wSettled THEN UNCHANGED <<wSettled, timer, ethListeners, resolved, wPc>>
  ELSE /\ wSettled' = TRUE
       /\ timer' = Cleared(timer)
       /\ ethListeners' = RemoveEthListener(ethListeners, "ethHandler")
       /\ resolved' = Resolved(parseChainId(chainHex))
       /\ wPc' = "resolved"

\* networkHandler(newNetwork, oldNetwork)
NetworkHandler(newNetwork) ==
  IF wSettled THEN UNCHANGED <<wSettled, timer, provListeners, resolved, wPc>>
  ELSE /\ wSettled' = TRUE
       /\ timer' = Cleared(timer)
       /\ provListeners' = IF waitProvider.removeListener
                           THEN RemoveFirst(provListeners, "networkHandler")
                           ELSE provListeners
       /\ resolved' = Resolved(IF ~Falsy(newNetwork) /\ newNetwork.chainId.t = "number"
                               THEN newNetwork.chainId ELSE Null)
       /\ wPc' = "resolved"

\* window.ethereum emits chainChanged while the wait is in flight or its
\* handler is registered
WaitEthEmits ==
  /\ Len(emitLog) < MaxEvents
  /\ EthHasOn
  /\ wPc = "waiting" \/ Has(ethListeners, "ethHandler")
  /\ \E chainHex \in Payloads :
       /\ walletChain' = IF parseChainId(chainHex) = Null THEN walletChain
                         ELSE parseChainId(chainHex).n
       /\ emitLog' = Append(emitLog, [payload |-> chainHex, pc |-> wPc,
                                      heard |-> Has(ethListeners, "ethHandler"),
                                      settled |-> wSettled, timer |-> timer.state])
       /\ IF Has(ethListeners, "ethHandler") THEN EthHandler(chainHex)
          ELSE UNCHANGED <<wSettled, timer, ethListeners, resolved, wPc>>
  /\ UNCHANGED <<args, helperVars, pageVars, provListeners, requests, swVars, waitProvider, waitMs, attached, formVars>>

\* the provider emits 'network' while the wait is in flight or its handler
\* is registered
WaitNetworkEmits ==
  /\ Len(emitLog) < MaxEvents
  /\ ProviderHasOn(waitProvider)
  /\ wPc = "waiting" \/ Has(provListeners, "networkHandler")
  /\ \E newNetwork \in NetworkPayloads :
       /\ walletChain' = IF ~Falsy(newNetwork) /\ newNetwork.chainId.t = "number"
                         THEN newNetwork.chainId.n ELSE walletChain
       /\ emitLog' = Append(emitLog, [payload |-> newNetwork, pc |-> wPc,
                                      heard |-> Has(provListeners, "networkHandler"),
                                      settled |-> wSettled, timer |-> timer.state])
       /\ IF Has(provListeners, "networkHandler") THEN NetworkHandler(newNetwork)
          ELSE UNCHANGED <<wSettled, timer, provListeners, resolved, wPc>>
  /\ UNCHANGED <<args, helperVars, pageVars, ethListeners, requests, swVars, waitProvider, waitMs, attached, formVars>>

\* the timer expires
WaitTimerFires ==
  /\ timer.state = "armed"
  /\ timer' = Fired(timer)
  /\ IF ~wSettled
     THEN /\ wSettled' = TRUE
          /\ resolved' = Resolved(Null)
          /\ wPc' = "resolved"
     ELSE UNCHANGED <<wSettled, resolved, wPc>>
  /\ UNCHANGED <<args, helperVars, pageVars, world, swVars, waitProvider, waitMs, attached, formVars>>

(***************************************************************************)
(* Arguments and environments of one call.                                 *)
(***************************************************************************)
SignerProvider == Provider("signer.provider", "number", "hex", Undefined, "ok")
WagmiProvider == Provider("wagmiProvider", "absent", "hex", Undefined, "absent")
WalletProvider == Provider("wallet.provider", "absent", "hex", Undefined, "absent")
LegacyProvider == Provider("wallet.provider", "absent", "absent", Str(ToHexString(1)), "absent")

Caip(n) == Str(Eip155Prefix \o ToDigits(n, 10))

\* the signer / provider pairs the wagmi hooks hand over
WagmiPairs ==
  {<<Undefined, Undefined>>, <<Signer(SignerProvider), Undefined>>,
   <<Undefined, WagmiProvider>>}
Wallets ==
  {Undefined,
   Wallet("metamask", Undefined, Undefined, Undefined),
   Wallet("metamask", WalletProvider, Undefined, Undefined),
   Wallet("privy", Undefined, Undefined, Caip(1)),
   Wallet("privy", WalletProvider, Undefined, Caip(1)),
   Wallet("phantom", Undefined, Undefined, Undefined),
   Wallet("phantom", WalletProvider, Undefined, Undefined),
   Wallet("phantom", LegacyProvider, Undefined, Undefined)}
Options ==
  [timeoutMs : {Undefined}, onChainDetected : {"absent", "returns", "throws"}]
  \cup {[timeoutMs |-> Num(3000), onChainDetected |-> "returns"]}
Ethereums ==
  {Undefined, Ethereum(FALSE, "ok", TRUE), Ethereum(TRUE, "absent", FALSE),
   Ethereum(TRUE, "ok", TRUE), Ethereum(TRUE, "ok", FALSE), Ethereum(TRUE, "throws", TRUE)}

InitWorld ==
  /\ walletChain \in Chains
  /\ ethListeners = <<>>
  /\ provListeners = <<>>
  /\ requests = <<>>
  /\ emitLog = <<>>

\* waitForChainChangeEvent is not running
WaitIdle ==
  /\ waitProvider = Undefined
  /\ waitMs = 0
  /\ wPc = "idle"
  /\ wSettled = FALSE
  /\ timer = Unset
  /\ attached = <<>>
  /\ resolved = Pending

\* no helper has been called on its own
NoCall == [fn |-> "none"]

\* no submission has begun and the chain watcher has not run
PageIdle ==
  /\ flights = <<>>
  /\ recordedBy = 0
  /\ effectRuns = <<>>
  /\ detectedWalletChain = Null
  /\ componentMounted = FALSE

\* no submission is under way
FormIdle ==
  /\ chainIdProp = Undefined
  /\ wallets = <<>>
  /\ schemaInfo = Null
  /\ status = "idle"
  /\ response = Null
  /\ errorInfo = Null
  /\ fPc = "idle"
  /\ signer = Undefined
  /\ selectedWallet = Undefined
  /\ actualChainId = Null
  /\ attests = <<>>
  /\ submitLog = <<>>
  /\ observedChain = Null
  /\ PageIdle

InitSwitch ==
  /\ pc = "start"
  /\ settled = FALSE
  /\ timeout = Unset
  /\ probeTimer = Unset
  /\ callbackCalls = <<>>
  /\ rejectedWith = NoError
  /\ outcome = Pending

Init ==
  /\ desiredChainId \in Chains
  /\ \E pair \in WagmiPairs : wagmiSigner = pair[1] /\ wagmiProvider = pair[2]
  /\ wallet \in Wallets
  /\ options \in Options
  /\ ethereum \in Ethereums
  /\ InitWorld
  /\ InitSwitch
  /\ WaitIdle
  /\ FormIdle
  /\ call = NoCall

\* The providers handed to waitForChainChangeEvent
ThrowingProvider == Provider("provider", "absent", "hex", Undefined, "throws")
WaitProviders == {Undefined, LegacyProvider, SignerProvider, ThrowingProvider}

\* switchWalletChainWithConfirmation is not running
SwitchIdle ==
  /\ desiredChainId = 1
  /\ wagmiSigner = Undefined
  /\ wagmiProvider = Undefined
  /\ wallet = Undefined
  /\ options = [timeoutMs |-> Undefined, onChainDetected |-> "absent"]
  /\ pc = "idle"
  /\ settled = FALSE
  /\ timeout = Unset
  /\ probeTimer = Unset
  /\ callbackCalls = <<>>
  /\ rejectedWith = NoError
  /\ outcome = Pending

InitWait ==
  /\ ethereum \in Ethereums
  /\ InitWorld
  /\ SwitchIdle
  /\ waitProvider \in WaitProviders
  /\ waitMs \in {WaitDefaultTimeoutMs, 3000}
  /\ wPc = "start"
  /\ wSettled = FALSE
  /\ timer = Unset
  /\ attached = <<>>
  /\ resolved = Pending
  /\ FormIdle
  /\ call = NoCall

NextWait ==
  \/ WaitCall
  \/ WaitEthEmits
  \/ WaitNetworkEmits
  \/ WaitTimerFires

SpecWait == InitWait /\ [][NextWait]_vars

Next ==
  \/ Enter
  \/ SwitchAccepted
  \/ SwitchRejected
  \/ GenericAccepted
  \/ GenericRejected
  \/ WalletEmits
  \/ TimeoutFires
  \/ ProbeFires
  \/ ProbeFiresCatch

Spec == Init /\ [][Next]_vars

\* Calls of Spec that request mainnet with the wagmi signer at hand, for an
\* injected, an embedded and a generic wallet, with window.ethereum
\* offering chainChanged, not offering it, and throwing on subscription.
\* The timers of the confirmation wait expire when armed: a setTimeout that
\* is not cleared runs its callback.
InitLive ==
  /\ Init
  /\ desiredChainId = 1
  /\ wagmiSigner = Signer(SignerProvider)
  /\ wallet \in {Wallet("metamask", Undefined, Undefined, Undefined),
                 Wallet("privy", WalletProvider, Undefined, Caip(1)),
                 Wallet("phantom", WalletProvider, Undefined, Undefined)}
  /\ options.timeoutMs = Undefined
  /\ ethereum \in {Ethereum(TRUE, "ok", TRUE), Ethereum(TRUE, "absent", FALSE),
                   Ethereum(TRUE, "throws", TRUE)}

SpecLive ==
  /\ InitLive /\ [][Next]_vars
  /\ WF_vars(TimeoutFires) /\ WF_vars(ProbeFires) /\ WF_vars(ProbeFiresCatch)

(***************************************************************************)
(* LocationAttestationFormCard: the submit flow.  One submission is        *)
(* followed from the click to the status it ends with.                     *)
(***************************************************************************)
Err(msg) == [t |-> "error", message |-> Text(msg)]
ErrDiag(msg, diag) == [t |-> "error", message |-> Text(msg), diagnostic |-> diag]

\* a toLowerCase that leaves the case as it is
ToLowerKeepsCase(s) == s

\* String.prototype.toLowerCase on the characters of an address
ToLower(s) ==
  [i \in 1..Len(s) |->
     IF \E j \in 1..Len(UpperHex) : UpperHex[j] = s[i]
     THEN HexDigits[10 + CHOOSE j \in 1..Len(UpperHex) : UpperHex[j] = s[i]]
     ELSE s[i]]

\* Array.prototype.find: the first element among the indexes `hits` that
\* satisfy the test, or undefined
Find(ws, hits) ==
  IF hits = {} THEN Undefined
  ELSE ws[CHOOSE i \in hits : \A j \in hits : i <= j]

\* new BrowserProvider(raw): an ethers provider over the wallet's provider
BrowserProvider(raw) == Provider("browserProvider", "bigint", "absent", Undefined, "ok")

\* the form's activeChainId memo
activeChainId ==
  IF chainIdProp.t = "number" THEN chainIdProp
  ELSE IF ~Falsy(wagmiProvider) /\ ~Falsy(wagmiProvider.network)
          /\ wagmiProvider.network.chainId.t = "number"
    THEN wagmiProvider.network.chainId
  ELSE IF ~Falsy(wagmiSigner) /\ ~Falsy(wagmiSigner.provider)
          /\ ~Falsy(wagmiSigner.provider.network)
          /\ wagmiSigner.provider.network.chainId.t = "number"
    THEN wagmiSigner.provider.network.chainId
  ELSE Undefined

submitDisabled == status \in {"submitting", "success"}

\* resolveSigner(wallets, wagmiSigner, wagmiProvider); getSignerOk tells
\* whether browserProvider.getSigner resolves
resolveSigner(ws, wSigner, getSignerOk) ==
  IF Len(ws) = 0 THEN [ok |-> FALSE, error |-> Err("No connected wallets")]
  ELSE IF ~Falsy(wSigner)
    THEN LET SameAddress == {i \in 1..Len(ws) :
                                ~Falsy(ws[i].address)
                                /\ ToLower(ws[i].address.s) = ToLower(wSigner.address.s)}
         IN [ok |-> TRUE, signer |-> wSigner,
             selectedWallet |-> IF wSigner.address = Throws THEN Undefined
                                ELSE Find(ws, SameAddress)]
  ELSE LET HasProvider == {i \in 1..Len(ws) : ~Falsy(ws[i].provider)}
           found == Find(ws, HasProvider)
           sel == IF Falsy(found) THEN ws[1] ELSE found
           own == Coalesce(sel.provider, Null)
           rawProvider == IF Falsy(own) /\ sel.getEthereumProvider.t # "undefined"
                          THEN AccessorResult(sel) ELSE own
       IN IF Falsy(sel) THEN [ok |-> FALSE, error |-> Err("No connected wallet available")]
          ELSE IF Falsy(rawProvider)
            THEN [ok |-> FALSE, error |-> Err("No connected wallet provider available")]
          ELSE IF ~getSignerOk THEN [ok |-> FALSE, error |-> Err("getSigner failed")]
          ELSE [ok |-> TRUE, selectedWallet |-> sel,
                signer |-> [t |-> "signer", provider |-> BrowserProvider(rawProvider),
                            address |-> sel.address]]

\* onSubmit's catch: buildErrorDiagnostics, setErrorMessage, setStatus('error')
Fail(err) ==
  /\ status' = "error"
  /\ errorInfo' = err
  /\ fPc' = "idle"

\* the user clicks Submit
SubmitClick ==
  /\ ~submitDisabled
  /\ Len(submitLog) < MaxSubmits
  /\ IF Falsy(activeChainId)
     THEN /\ status' = "error"
          /\ errorInfo' = Err("No active chain selected. Please select a network using the selector in the header.")
          /\ UNCHANGED <<response, fPc, submitLog, observedChain>>
     ELSE /\ status' = "submitting"
          /\ response' = Null
          /\ errorInfo' = Null
          /\ fPc' = "resolveSigner"
          /\ submitLog' = Append(submitLog, walletChain)
          /\ observedChain' = Null
  /\ UNCHANGED <<args, helperVars, pageVars, world, swVars, wfVars, chainIdProp, wallets, schemaInfo, signer,
                 selectedWallet, actualChainId, attests>>

\* Step 1 settles; Step 2 begins: switchWalletChain up to its await
ResolveSignerSettles ==
  /\ fPc = "resolveSigner"
  /\ \E getSignerOk \in BOOLEAN :
       LET r == resolveSigner(wallets, wagmiSigner, getSignerOk)
           provider == resolveProvider(wagmiSigner, wagmiProvider, r.selectedWallet)
       IN IF ~r.ok
          THEN /\ Fail(r.error)
               /\ UNCHANGED <<signer, selectedWallet, requests>>
          ELSE /\ signer' = r.signer
               /\ selectedWallet' = r.selectedWallet
               /\ UNCHANGED <<status, errorInfo>>
               /\ IF chainIdProp.t # "number"
                  THEN fPc' = "attest" /\ UNCHANGED requests
                  ELSE IF ~Falsy(provider) /\ provider.request # "absent"
                    THEN /\ requests' = Append(requests, SwitchRequest(provider.id))
                         /\ fPc' = "switching"
                    ELSE fPc' = "verify" /\ UNCHANGED requests
  /\ UNCHANGED <<args, helperVars, pageVars, walletChain, ethListeners, provListeners, emitLog, swVars, wfVars,
                 chainIdProp, wallets, schemaInfo, response, actualChainId, attests,
                 submitLog,
                 observedChain>>

\* the wallet accepts the switch request (and may or may not have moved)
SwitchSettles ==
  /\ fPc = "switching"
  /\ walletChain' \in {walletChain, desiredChainId}
  /\ fPc' = "verify"
  /\ UNCHANGED <<args, helperVars, pageVars, ethListeners, provListeners, requests, emitLog, swVars, wfVars,
                 chainIdProp, wallets, schemaInfo, status, response, errorInfo, signer,
                 selectedWallet, actualChainId, attests, submitLog,
                 observedChain>>

\* the wallet rejects the switch request: switchWalletChain throws the
\* wrapped failure
SwitchFails ==
  /\ fPc = "switching"
  /\ \E e \in Rejections : Fail(WrapSwitchFailure(e))
  /\ UNCHANGED <<args, helperVars, pageVars, world, swVars, wfVars, chainIdProp, wallets, schemaInfo, response,
                 signer, selectedWallet, actualChainId, attests, submitLog,
                 observedChain>>

\* eth_chainId asked of a provider whose request is a function: the parsed
\* answer, or `otherwise` when it is no string or the request throws
ProbeRequest(provider, otherwise) ==
  IF provider.request = "hex" THEN parseChainId(Str(ToHexString(walletChain)))
  ELSE otherwise

\* verifyWalletChain: the chain id it settles on before comparing
DetectedChain(probeProvider) ==
  LET detected == detectChainId(probeProvider, selectedWallet, walletChain)
      wsProv == IF Falsy(wagmiSigner) THEN Undefined ELSE wagmiSigner.provider
  IN IF detected = Null /\ ~Falsy(wagmiSigner) /\ ~Falsy(wsProv) /\ wsProv.request # "absent"
     THEN ProbeRequest(wsProv, detected)
     ELSE detected

\* verifyWalletChain's last lines: the signer it returns
VerifiedSigner ==
  LET provForSigner == resolveProvider(wagmiSigner, wagmiProvider, selectedWallet)
  IN IF ~Falsy(signer) \/ Falsy(provForSigner) THEN signer
     ELSE [t |-> "signer", provider |-> BrowserProvider(provForSigner),
           address |-> IF Falsy(selectedWallet) THEN Undefined ELSE selectedWallet.address]

CouldNotDetermine ==
  ErrDiag("Could not determine active wallet chain after switch attempt",
          [requestedChainId |-> Num(desiredChainId), actualChainId |-> Null])
DidNotSwitch(finalActual) ==
  ErrDiag("Wallet did not switch to desired chain. Expected " \o ToString(desiredChainId)
          \o " but provider is on " \o ToString(finalActual.n),
          [requestedChainId |-> Num(desiredChainId), actualChainId |-> finalActual])

\* verifyWalletChain up to its first suspension after detection
VerifyDetect ==
  /\ fPc = "verify"
  /\ LET probeProvider == resolveProvider(wagmiSigner, wagmiProvider, selectedWallet)
         actual == DetectedChain(probeProvider)
     IN /\ actualChainId' = actual
        /\ observedChain' = actual
        /\ IF actual = Null
           THEN /\ Fail(CouldNotDetermine)
                /\ UNCHANGED <<signer, wfVars, ethListeners, provListeners>>
           ELSE IF actual # Num(desiredChainId)
             THEN /\ StartWait(probeProvider, WaitDefaultTimeoutMs)
                  /\ fPc' = "verifyWait"
                  /\ UNCHANGED <<status, errorInfo, signer>>
           ELSE /\ signer' = VerifiedSigner
                /\ fPc' = "attest"
                /\ UNCHANGED <<status, errorInfo, wfVars, ethListeners, provListeners>>
  /\ UNCHANGED <<args, helperVars, pageVars, walletChain, requests, emitLog, swVars, chainIdProp, wallets,
                 schemaInfo, response, selectedWallet, attests, submitLog>>

\* a final comparison that lets every chain through
FinalMatchesAnything(finalActual) == TRUE

\* finalActual === desiredChainId
FinalMatches(finalActual) == finalActual = Num(desiredChainId)

\* the wait has resolved: the direct probe of window.ethereum if it
\* resolved null, then the final comparison
VerifyAfterWait ==
  /\ fPc = "verifyWait"
  /\ wPc = "resolved"
  /\ LET recheckedChain ==
           IF resolved.value = Null /\ ~Falsy(ethereum) /\ ethereum.request
           THEN parseChainId(Str(ToHexString(walletChain)))
           ELSE resolved.value
         finalActual == Coalesce(recheckedChain, actualChainId)
     IN /\ observedChain' = finalActual
        /\ IF ~FinalMatches(finalActual)
           THEN Fail(DidNotSwitch(finalActual)) /\ UNCHANGED signer
           ELSE /\ signer' = VerifiedSigner
                /\ fPc' = "attest"
                /\ UNCHANGED <<status, errorInfo>>
  /\ UNCHANGED <<args, helperVars, pageVars, world, swVars, wfVars, chainIdProp, wallets, schemaInfo, response,
                 selectedWallet, actualChainId, attests, submitLog>>

\* the chain metadata of the form
SchemaInfo(known) ==
  [t |-> "object",
   easContractAddress |-> IF known THEN Address(<<"e", "a", "5">>) ELSE Null,
   schemaUID |-> IF known THEN Str(<<"0", "x", "5", "c">>) ELSE Null]

\* Steps 3 to 5: encode, check the metadata, connect and call eas.attest;
\* the call answers a transaction or rejects
Attest ==
  /\ fPc = "attest"
  /\ IF Falsy(schemaInfo) \/ Falsy(schemaInfo.easContractAddress) \/ Falsy(schemaInfo.schemaUID)
     THEN /\ Fail(Err("Chain metadata for chain " \o ToString(activeChainId.n) \o " is missing. Ensure the selected network exists in NETWORK_METADATA."))
          /\ UNCHANGED attests
     ELSE IF Falsy(selectedWallet)
     THEN /\ Fail(Err("Cannot read properties of undefined (reading 'address')"))
          /\ UNCHANGED attests
     ELSE /\ attests' = Append(attests, [schema |-> schemaInfo.schemaUID,
                                         recipient |-> selectedWallet.address,
                                         chain |-> walletChain,
                                         observed |-> observedChain,
                                         submission |-> Len(submitLog)])
          /\ \/ fPc' = "receipt" /\ UNCHANGED <<status, errorInfo>>
             \/ Fail(Err("attest rejected"))
  /\ UNCHANGED <<args, helperVars, pageVars, world, swVars, wfVars, chainIdProp, wallets, schemaInfo, response,
                 signer, selectedWallet, actualChainId, submitLog,
                 observedChain>>

\* Step 6: processTransactionReceipt settles
ReceiptSettles ==
  /\ fPc = "receipt"
  /\ \/ /\ response' = [t |-> "object", chain |-> activeChainId]
        /\ status' = "success"
        /\ fPc' = "idle"
        /\ UNCHANGED errorInfo
     \/ Fail(Err("tx.wait rejected")) /\ UNCHANGED response
  /\ UNCHANGED <<args, helperVars, pageVars, world, swVars, wfVars, chainIdProp, wallets, schemaInfo, signer,
                 selectedWallet, actualChainId, attests, submitLog,
                 observedChain>>

\* a provider whose network is known
WithNetwork(provider, cid) == [provider EXCEPT !.network = Network(Num(cid))]
\* a wallet whose address differs from the signer's
OtherWallet(w) == [w EXCEPT !.address = Address(<<"c", "d">>)]

\* the wagmi hooks of the form
FormPairs ==
  {<<Undefined, Undefined>>, <<Signer(SignerProvider), Undefined>>,
   <<Undefined, WithNetwork(WagmiProvider, 1)>>}
\* useWallets().wallets
WalletLists ==
  {<<>>,
   <<Wallet("metamask", WalletProvider, Undefined, Undefined)>>,
   <<Wallet("privy", Undefined, WalletProvider, Caip(1))>>,
   <<Wallet("phantom", Undefined, Undefined, Undefined)>>,
   <<OtherWallet(Wallet("privy", Undefined, Undefined, Caip(1))),
     Wallet("metamask", LegacyProvider, Undefined, Undefined)>>}
FormEthereums == {Undefined, Ethereum(TRUE, "ok", TRUE), Ethereum(FALSE, "ok", FALSE)}

InitSubmit ==
  /\ chainIdProp \in {Undefined} \cup {Num(c) : c \in Chains}
  /\ desiredChainId = IF chainIdProp.t = "number" THEN chainIdProp.n ELSE 0
  /\ \E pair \in FormPairs : wagmiSigner = pair[1] /\ wagmiProvider = pair[2]
  /\ wallet = Undefined
  /\ options = [timeoutMs |-> Undefined, onChainDetected |-> "absent"]
  /\ ethereum \in FormEthereums
  /\ InitWorld
  /\ pc = "idle"
  /\ settled = FALSE
  /\ timeout = Unset
  /\ probeTimer = Unset
  /\ callbackCalls = <<>>
  /\ rejectedWith = NoError
  /\ outcome = Pending
  /\ WaitIdle
  /\ wallets \in WalletLists
  /\ schemaInfo \in {SchemaInfo(TRUE), SchemaInfo(FALSE)}
  /\ status = "idle"
  /\ response = Null
  /\ errorInfo = Null
  /\ fPc = "idle"
  /\ signer = Undefined
  /\ selectedWallet = Undefined
  /\ actualChainId = Null
  /\ attests = <<>>
  /\ submitLog = <<>>
  /\ observedChain = Null
  /\ PageIdle
  /\ call = NoCall

NextSubmit ==
  \/ SubmitClick
  \/ ResolveSignerSettles
  \/ SwitchSettles
  \/ SwitchFails
  \/ VerifyDetect
  \/ WaitEthEmits
  \/ WaitNetworkEmits
  \/ WaitTimerFires
  \/ VerifyAfterWait
  \/ Attest
  \/ ReceiptSettles

SpecSubmit == InitSubmit /\ [][NextSubmit]_vars

(***************************************************************************)
(* extractUidFromReceipt and processTransactionReceipt.  A receipt is      *)
(* [t |-> "receipt", logs, transactionHash, hash, gasUsed]; logs is an     *)
(* array [t |-> "array", items |-> <<log, ..>>] of [topics, data].         *)
(***************************************************************************)
\* a || b and a && b
Or(a, b) == IF Falsy(a) THEN b ELSE a
And(a, b) == IF Falsy(a) THEN a ELSE b

\* a topic test that accepts nothing
NeverBytes32Text(v) == FALSE

\* typeof maybe === 'string' && maybe.startsWith('0x') && maybe.length === 66
IsBytes32Text(v) == v.t = "string" /\ StartsWith(v.s, <<"0", "x">>) /\ Len(v.s) = 66

\* /0x[0-9a-fA-F]{64}/.exec(dataStr): the leftmost match, or null
DataMatch(dataStr) ==
  LET starts == {i \in 1..(Len(dataStr) - 65) :
                   /\ dataStr[i] = "0"
                   /\ dataStr[i + 1] = "x"
                   /\ \A k \in 2..65 : IsHexDigit(dataStr[i + k])}
  IN IF starts = {} THEN Null
     ELSE LET first == CHOOSE i \in starts : \A j \in starts : i <= j
          IN Str(SubSeq(dataStr, first, first + 65))

RECURSIVE ScanLogs(_)
\* the for loop over receipt.logs
ScanLogs(logs) ==
  IF logs = <<>> THEN Null
  ELSE LET log == Head(logs)
           dataStr == IF Falsy(log.data) THEN <<>> ELSE log.data.s
       IN IF Len(log.topics) >= 2 /\ IsBytes32Text(log.topics[2]) THEN log.topics[2]
          ELSE IF DataMatch(dataStr) # Null THEN DataMatch(dataStr)
          ELSE ScanLogs(Tail(logs))

extractUidFromReceipt(receipt) ==
  IF Falsy(receipt) \/ Falsy(receipt.logs) THEN Null
  ELSE ScanLogs(receipt.logs.items)

\* v?.f : the field, undefined when v is nullish or has no such field
OptGet(v, f) == IF "t" \in DOMAIN v /\ Nullish(v) THEN Undefined
                ELSE IF f \in DOMAIN v THEN v[f] ELSE Undefined

\* String(v) for what a wait can reject with
StringOf(v) ==
  CASE v.t = "null" -> Text("null")
    [] v.t = "undefined" -> Text("undefined")
    [] v.t = "string" -> v
    [] OTHER -> Text("[object Object]")

\* a txHash that prefers the transaction handle's hash
WaitTxHashHandleFirst(tx, waitErr) ==
  Or(Or(Or(And(tx, OptGet(tx, "hash")),
           And(OptGet(waitErr, "receipt"), OptGet(OptGet(waitErr, "receipt"), "transactionHash"))),
        OptGet(waitErr, "transactionHash")),
     Null)

\* (waitErr?.receipt && waitErr.receipt.transactionHash)
\*   || waitErr?.transactionHash || (tx && tx.hash) || null
WaitTxHash(tx, waitErr) ==
  Or(Or(Or(And(OptGet(waitErr, "receipt"), OptGet(OptGet(waitErr, "receipt"), "transactionHash")),
           OptGet(waitErr, "transactionHash")),
        And(tx, OptGet(tx, "hash"))),
     Null)

\* the diagnostic attached when tx.wait() rejects with waitErr
WaitDiagnostic(tx, waitErr) ==
  [message |-> Coalesce(OptGet(waitErr, "message"), StringOf(waitErr)),
   name |-> Coalesce(OptGet(waitErr, "name"), Null),
   stack |-> Coalesce(OptGet(waitErr, "stack"), Null),
   receipt |-> Coalesce(OptGet(waitErr, "receipt"), Null),
   transaction |-> Coalesce(OptGet(waitErr, "transaction"), Null),
   txHash |-> WaitTxHash(tx, waitErr)]

\* processTransactionReceipt(tx, eas, networkName, activeChainId); tx.wait
\* answers waited.value or rejects with waited.error, and fetched tells
\* whether eas.getAttestation resolves
processTransactionReceipt(tx, waited, fetched, networkName, activeChain) ==
  IF waited.kind = "throw"
  THEN Thrown([t |-> "error",
               message |-> Or(WaitDiagnostic(tx, waited.error).message,
                              Text("Transaction wait failed")),
               diagnostic |-> WaitDiagnostic(tx, waited.error)])
  ELSE LET attestationUID == waited.value
           receipt == Coalesce(Coalesce(tx.receipt,
                                        IF Falsy(attestationUID) \/ attestationUID.t = "string"
                                        THEN And(attestationUID, Undefined)
                                        ELSE attestationUID.receipt),
                               Null)
           uidFromLogs == extractUidFromReceipt(receipt)
           txHashStr == Or(Or(Or(Or(IF Falsy(receipt) THEN receipt ELSE receipt.transactionHash,
                                    IF Falsy(receipt) THEN receipt ELSE receipt.hash),
                                 tx.hash),
                              IF Falsy(attestationUID) \/ attestationUID.t = "string"
                              THEN And(attestationUID, Undefined)
                              ELSE attestationUID.transactionHash),
                           Null)
           attestationUIDStr == IF attestationUID.t = "string" THEN attestationUID
                                ELSE Or(IF Falsy(attestationUID) THEN attestationUID
                                        ELSE attestationUID.uid, Null)
           finalUid == Or(Or(attestationUIDStr, uidFromLogs), Null)
       IN Returned([txHash |-> txHashStr,
                    attestationUID |-> finalUid,
                    gasUsed |-> IF ~Falsy(receipt) /\ ~Falsy(receipt.gasUsed)
                                THEN receipt.gasUsed ELSE Null,
                    raw |-> Coalesce(Coalesce(receipt, attestationUID), tx),
                    network |-> Coalesce(networkName,
                                         IF Falsy(activeChain) THEN Text("unknown")
                                         ELSE Text(ToString(activeChain.n))),
                    rawAttestation |-> IF ~Falsy(finalUid) /\ fetched
                                       THEN [t |-> "attestation", uid |-> finalUid]
                                       ELSE Undefined])

(***************************************************************************)
(* buildErrorDiagnostics.  A message built from a template is              *)
(* [t |-> "string", parts |-> <<..>>], the literal pieces and substituted  *)
(* values in order; diagnosticDetails is a function from property names.   *)
(***************************************************************************)
\* NETWORK_METADATA as getChainNetworkDetails returns it
NETWORK_METADATA ==
  [k \in {"42220", "42161", "11155111", "8453", "10"} |->
     [chain |-> CASE k = "42220" -> Text("celo")
                  [] k = "42161" -> Text("arbitrum")
                  [] k = "11155111" -> Text("sepolia")
                  [] k = "8453" -> Text("base")
                  [] k = "10" -> Text("optimism")]]

\* `chain ${id}`
ChainLabel(id) == Text("chain " \o ToString(id.n))
\* a lookup that never finds a name
NetworkNameUnnamed(chains, id) == ChainLabel(id)
\* chains[String(id)]?.chain ?? `chain ${id}`
NetworkName(chains, id) ==
  IF ToString(id.n) \in DOMAIN chains
  THEN Coalesce(OptGet(chains[ToString(id.n)], "chain"), ChainLabel(id))
  ELSE ChainLabel(id)

Message(parts) == [t |-> "string", parts |-> parts]
\* an object, or a primitive that is not falsy
Truthy(v) == "t" \notin DOMAIN v \/ ~Falsy(v)
\* the own enumerable properties Object.entries(diag) lists
Entries(diag) ==
  IF "t" \in DOMAIN diag /\ diag.t \notin {"object", "error"} THEN {}
  ELSE IF "t" \in DOMAIN diag /\ diag.t = "error"
    THEN DOMAIN diag \ {"t", "message", "name", "stack"}
  ELSE DOMAIN diag \ {"t"}

\* a merge in which the computed fields win over the attached ones
MergeKeepsComputed(base, diag) ==
  [k \in DOMAIN base \cup (Entries(diag) \ {"stack"}) |->
     IF k \in DOMAIN base THEN base[k] ELSE diag[k]]
\* { ...base, ...Object.fromEntries(Object.entries(diag).filter(k !== 'stack')) }
Merge(base, diag) ==
  [k \in DOMAIN base \cup (Entries(diag) \ {"stack"}) |->
     IF k \in Entries(diag) \ {"stack"} THEN diag[k] ELSE base[k]]

\* buildErrorDiagnostics(error, activeChainId, schemaInfo, getChainNetworkDetails);
\* chains is what the lookup returns, or Throws when it raises
buildErrorDiagnostics(error, activeChain, schema, chains) ==
  IF chains = Throws
  THEN [userMessage |-> Coalesce(OptGet(error, "message"), StringOf(error)),
        diagnosticDetails |-> StringOf(error)]
  ELSE
  LET diagRaw == IF Truthy(error) /\ Truthy(OptGet(error, "diagnostic"))
                 THEN error.diagnostic ELSE error
      diag == IF Truthy(diagRaw) THEN diagRaw ELSE Obj
      cause == OptGet(diag, "cause")
      causeDiag == IF Truthy(cause) THEN OptGet(cause, "diagnostic") ELSE cause
      requestedChainFromDiag ==
        parseChainId(Coalesce(OptGet(diag, "requestedChainId"), OptGet(diag, "requestedChain")))
      actualChainFromDiag ==
        parseChainId(Coalesce(Coalesce(OptGet(diag, "actualChainId"),
                                       IF Truthy(causeDiag)
                                       THEN OptGet(causeDiag, "actualChainId")
                                       ELSE causeDiag),
                              Null))
      selectedWalletChainRaw ==
        Coalesce(Coalesce(OptGet(OptGet(OptGet(diag, "probeInfo"), "selectedWalletSnapshot"),
                                 "chainId"),
                          OptGet(OptGet(diag, "selectedWalletSnapshot"), "chainId")),
                 Null)
      selectedWalletChainParsed == parseChainId(selectedWalletChainRaw)
      reqName == NetworkName(chains, requestedChainFromDiag)
      userMessage ==
        IF /\ ~Falsy(requestedChainFromDiag) /\ ~Falsy(actualChainFromDiag)
           /\ requestedChainFromDiag # actualChainFromDiag
        THEN Message(<<Text("Your wallet is on "), NetworkName(chains, actualChainFromDiag),
                       Text(" (chain "), Text(ToString(actualChainFromDiag.n)),
                       Text(") but you selected "), reqName,
                       Text(" (chain "), Text(ToString(requestedChainFromDiag.n)),
                       Text("). Please switch your wallet network to "), reqName,
                       Text(" and try again.")>>)
        ELSE IF ~Falsy(requestedChainFromDiag) /\ Nullish(actualChainFromDiag)
        THEN Message(<<Text("Please switch your wallet network to "), reqName,
                       Text(" (chain "), Text(ToString(requestedChainFromDiag.n)),
                       Text("). Your wallet appears to be on "),
                       IF ~Falsy(selectedWalletChainParsed)
                       THEN NetworkName(chains, selectedWalletChainParsed)
                       ELSE Coalesce(selectedWalletChainRaw, Text("your current wallet network")),
                       Text(". Then retry the submission.")>>)
        ELSE Null
      base ==
        [message |-> Coalesce(Coalesce(OptGet(diag, "message"), OptGet(error, "message")),
                              StringOf(error)),
         name |-> Coalesce(Coalesce(OptGet(diag, "name"), OptGet(error, "name")), Null),
         stack |-> Coalesce(Coalesce(OptGet(diag, "stack"), OptGet(error, "stack")), Null),
         txHash |-> Coalesce(OptGet(diag, "txHash"), Null),
         receipt |-> Coalesce(OptGet(diag, "receipt"), Null),
         transaction |-> Coalesce(OptGet(diag, "transaction"), Null),
         requestedChainId |-> Coalesce(Coalesce(requestedChainFromDiag, activeChain), Null),
         actualChainId |-> Coalesce(Coalesce(actualChainFromDiag, selectedWalletChainParsed),
                                    Null),
         schemaInfoUsed |-> Coalesce(schema, Null)]
  IN [userMessage |-> Coalesce(Coalesce(userMessage, OptGet(error, "message")),
                               StringOf(error)),
      diagnosticDetails |-> Merge(base, diag)]

(***************************************************************************)
(* The helpers called on their own.  A behaviour is one call: the action  *)
(* draws the arguments, applies the helper and records the call.           *)
(***************************************************************************)
\* the providers detection is run against
DetectProviders ==
  {Undefined, Null}
  \cup {Provider("provider", gn, rq, prop, "absent") :
          gn \in {"absent", "number", "bigint", "throws"},
          rq \in {"absent", "hex", "nonstring", "throws"},
          prop \in {Undefined, Str(ToHexString(1)), Str(<<"0", "x">>)}}
\* the wallet records detection is run against
DetectWallets ==
  {Undefined}
  \cup {Wallet("privy", Undefined, Undefined, cid) :
          cid \in {Undefined, Caip(1), Num(8453), Str(<<"1", "g">>)}}

CallDetectChainId ==
  /\ call = NoCall
  /\ \E provider \in DetectProviders, w \in DetectWallets, actual \in Chains :
       call' = [fn |-> "detectChainId", provider |-> provider, wallet |-> w,
                actual |-> actual,
                attempts |-> DetectAttempts(provider, w, actual),
                outcome |-> Returned(detectChainId(provider, w, actual))]
  /\ UNCHANGED <<args, world, swVars, wfVars, formVars, pageVars>>

\* the four accepted shapes of chain id n
ShapesOf(n) == {Num(n), Caip(n), Str(ToHexString(n)), Str(ToDigits(n, 10))}
\* chain ids handed to parseChainId
ParseChains == Chains \cup {10}
\* values of no accepted shape
Malformed ==
  {Null, Undefined, Obj, NaN, Num(0 - 1), Str(<<>>),
   Str(<<"0", "x">>), Str(<<"0", "x", "1", "g">>), Str(<<"1", "g">>),
   Str(<<"-", "1", "0">>), Str(Eip155Prefix), Str(Eip155Prefix \o <<"x">>),
   Str(<<"e", "i", "p", "1", "5", "5">>)}
ParseInputs == UNION {ShapesOf(n) : n \in ParseChains} \cup Malformed

CallParseChainId ==
  /\ call = NoCall
  /\ \E value \in ParseInputs :
       call' = [fn |-> "parseChainId", value |-> value,
                outcome |-> Returned(parseChainId(value))]
  /\ UNCHANGED <<args, world, swVars, wfVars, formVars, pageVars>>

\* what the wallet's accessor resolves to when it does
AccessorProvider == Provider("wallet.getEthereumProvider()", "absent", "hex", Undefined, "absent")
ResolveSigners == {Undefined, Null, Signer(Undefined), Signer(Null), Signer(SignerProvider)}
ResolveProviders == {Undefined, Null, WagmiProvider}
ResolveWallets ==
  {Undefined, Null}
  \cup {Wallet("privy", own, accessor, Undefined) :
          own \in {Undefined, Null, WalletProvider},
          accessor \in {Undefined, AccessorProvider, Throws}}

CallResolveProvider ==
  /\ call = NoCall
  /\ \E s \in ResolveSigners, prov \in ResolveProviders, w \in ResolveWallets :
       call' = [fn |-> "resolveProvider", signer |-> s, provider |-> prov, wallet |-> w,
                accessorInvoked |-> AccessorInvoked(s, prov, w),
                outcome |-> Returned(resolveProvider(s, prov, w))]
  /\ UNCHANGED <<args, world, swVars, wfVars, formVars, pageVars>>

\* a signer whose getAddress answers `address`, or rejects when it is Throws
SignerAt(address) == [Signer(SignerProvider) EXCEPT !.address = address]
SignerInputs ==
  {Undefined, Null, Signer(SignerProvider), SignerAt(Throws),
   SignerAt(Address(<<"C", "D">>)), SignerAt(Address(<<"e", "e">>))}

CallResolveSigner ==
  /\ call = NoCall
  /\ \E ws \in WalletLists, s \in SignerInputs, getSignerOk \in BOOLEAN :
       LET r == resolveSigner(ws, s, getSignerOk)
       IN call' = [fn |-> "resolveSigner", wallets |-> ws, signer |-> s,
                   outcome |-> IF r.ok
                               THEN Returned([signer |-> r.signer,
                                              selectedWallet |-> r.selectedWallet])
                               ELSE Thrown(r.error)]
  /\ UNCHANGED <<args, world, swVars, wfVars, formVars, pageVars>>

\* a bytes32 value as text: 0x and 64 times the digit
Bytes32(digit) == Str(<<"0", "x">> \o [i \in 1..64 |-> digit])
\* an event log with its topics and data
Log(topics, data) == [topics |-> topics, data |-> data]
EventSignature == Bytes32("5")
\* the logs receipts are built from: the uid as second topic, the uid in
\* the data only, both, neither, and an anonymous log without data
ReceiptLogs ==
  {Log(<<EventSignature, Bytes32("a")>>, Str(<<"0", "x">>)),
   Log(<<EventSignature>>, Str(Bytes32("b").s \o Slice(Bytes32("C").s, 2))),
   Log(<<EventSignature, Bytes32("d")>>, Bytes32("e")),
   Log(<<EventSignature>>, Str(<<"0", "x">> \o [i \in 1..40 |-> "f"])),
   Log(<<>>, Undefined)}
Receipt(logs) ==
  [t |-> "receipt", logs |-> logs, transactionHash |-> Str(<<"0", "x", "7">>),
   hash |-> Undefined, gasUsed |-> Str(<<"2", "1">>)]
Array(items) == [t |-> "array", items |-> items]
Receipts ==
  {Null, Receipt(Undefined)}
  \cup {Receipt(Array(<<>>))}
  \cup {Receipt(Array(<<l>>)) : l \in ReceiptLogs}
  \cup {Receipt(Array(<<l, m>>)) : l \in ReceiptLogs, m \in ReceiptLogs}
\* what tx.wait() resolves to: the uid, nothing, or an object
WaitObject(uid, receipt) ==
  [t |-> "object", uid |-> uid, receipt |-> receipt, transactionHash |-> Undefined]
\* what it rejects with
WaitError(receipt, hash) ==
  [t |-> "error", message |-> Text("could not parse receipt"), receipt |-> receipt,
   transaction |-> Undefined, transactionHash |-> hash]
Tx(receipt) == [t |-> "tx", hash |-> Str(<<"0", "x", "9">>), receipt |-> receipt]

\* the rejections of tx.wait(): errors with and without an attached receipt,
\* transaction hash, transaction and message, and thrown non-errors
WaitErrors(receipt) ==
  {WaitError(r, h) :
     r \in {Undefined, receipt} \cup (IF Falsy(receipt) THEN {}
                                      ELSE {[receipt EXCEPT !.transactionHash = Undefined]}),
     h \in {Undefined, Str(<<"0", "x", "8">>)}}
  \cup {[WaitError(Undefined, Undefined) EXCEPT !.message = m, !.transaction = Tx(Undefined)] :
          m \in {Text(""), Undefined}}
  \cup {Null, Text("wait failed")}
\* what calling wait on a null transaction handle raises
TypeErrorOnNullTx ==
  [t |-> "error", message |-> Text("Cannot read properties of null (reading 'wait')"),
   name |-> Text("TypeError")]

\* processTransactionReceipt(tx, eas, networkName, activeChainId)
CallProcessTransactionReceipt ==
  /\ call = NoCall
  /\ \E receipt \in Receipts, onTx \in BOOLEAN, fetched \in BOOLEAN,
        handle \in {"hash", "nohash", "null"},
        answer \in {"uid", "emptyText", "null", "object", "objectWithUid", "rejects"} :
       LET carried == IF onTx THEN Undefined ELSE receipt
       IN \E waitErr \in IF handle = "null" THEN {TypeErrorOnNullTx}
                         ELSE IF answer = "rejects" THEN WaitErrors(carried)
                         ELSE {NoError} :
            LET tx == CASE handle = "hash" -> Tx(IF onTx THEN receipt ELSE Undefined)
                        [] handle = "nohash" ->
                             [Tx(IF onTx THEN receipt ELSE Undefined) EXCEPT !.hash = Undefined]
                        [] handle = "null" -> Null
                waited ==
                  CASE waitErr # NoError -> Thrown(waitErr)
                    [] answer = "uid" -> Returned(Bytes32("1"))
                    [] answer = "emptyText" -> Returned(Str(<<>>))
                    [] answer = "null" -> Returned(Null)
                    [] answer = "object" -> Returned(WaitObject(Undefined, carried))
                    [] answer = "objectWithUid" -> Returned(WaitObject(Bytes32("1"), carried))
            IN call' = [fn |-> "processTransactionReceipt", tx |-> tx, waited |-> waited,
                        fetched |-> fetched,
                        outcome |-> processTransactionReceipt(tx, waited, fetched, Undefined,
                                                              Num(desiredChainId))]
  /\ UNCHANGED <<args, world, swVars, wfVars, formVars, pageVars>>

\* chain ids named in diagnostics: two the metadata names, the two of the
\* scenarios, of which mainnet is unnamed
DiagChains == Chains \cup {42220, 11155111}
\* probeInfo as verifyWalletChain builds it from the wallet
ProbeInfo(w) ==
  [probeProviderType |-> Null, probeProviderKeys |-> Null,
   selectedWalletSnapshot |->
     IF Falsy(w) THEN Null
     ELSE [address |-> w.address, walletClientType |-> w.walletClientType,
           chainId |-> Coalesce(w.chainId, Null)]]
\* the errors onSubmit can catch: the two verifyWalletChain throws, a
\* wrapped switch failure, a failed finality wait, plain errors and
\* non-errors, and diagnostics naming chains in text form
CaughtErrors ==
  {ErrDiag("Wallet did not switch to desired chain.",
           [requestedChainId |-> Num(r), actualChainId |-> Num(a)]) :
     r \in DiagChains, a \in DiagChains}
  \cup {ErrDiag("Could not determine active wallet chain after switch attempt",
                [requestedChainId |-> Num(r), actualChainId |-> Null,
                 probeInfo |-> ProbeInfo(w)]) :
          r \in DiagChains,
          w \in {Undefined} \cup {Wallet("privy", Undefined, Undefined, cid) :
                                    cid \in {Undefined, Caip(1), Caip(8453), Str(<<"1", "g">>)}}}
  \cup {ErrDiag("Failed to switch wallet",
                [cause |-> c, requestedChainId |-> Num(r)]) :
          r \in DiagChains,
          c \in {Null, Err("User rejected the request."),
                 ErrDiag("inner", [actualChainId |-> Num(1)])}}
  \cup {ErrDiag("mismatch",
                [requestedChain |-> Str(ToHexString(r)), actualChainId |-> Caip(a),
                 stack |-> Text("at verify")]) :
          r \in Chains, a \in Chains}
  \cup {processTransactionReceipt(Tx(Undefined),
                                  Thrown(WaitError(Receipt(Undefined), Undefined)),
                                  FALSE, Undefined, Undefined).error,
        [t |-> "error", message |-> Text("boom"), stack |-> Text("at submit")], Err("boom"),
        [t |-> "error", message |-> Undefined], Null, Text("boom")}

\* buildErrorDiagnostics(error, activeChainId, schemaInfo, getChainNetworkDetails)
CallBuildErrorDiagnostics ==
  /\ call = NoCall
  /\ \E error \in CaughtErrors, activeChain \in {Undefined, Num(8453)},
        known \in BOOLEAN, lookup \in {"metadata", "empty", "throws"} :
       LET chains == CASE lookup = "metadata" -> NETWORK_METADATA
                       [] lookup = "empty" -> <<>>
                       [] lookup = "throws" -> Throws
       IN call' = [fn |-> "buildErrorDiagnostics", error |-> error,
                   activeChain |-> activeChain, schema |-> SchemaInfo(known),
                   lookup |-> lookup,
                   outcome |-> Returned(buildErrorDiagnostics(error, activeChain,
                                                              SchemaInfo(known), chains))]
  /\ UNCHANGED <<args, world, swVars, wfVars, formVars, pageVars>>

\* what a throwing property read raises inside resolveProvider
ResolveFailure == [t |-> "error", message |-> Text("provider getter threw")]
\* how the environment answers one switchWalletChain call
SwitchAnswers == {"accepted", "rejected", "resolveThrows"}

\* switchWalletChain(desiredChainId, wagmiSigner, wagmiProvider, wallet)
CallSwitchWalletChain ==
  /\ call = NoCall
  /\ \E s \in {Undefined, Signer(SignerProvider)}, w \in {Undefined} \cup Wallets,
        answer \in SwitchAnswers, e \in Rejections :
       LET provider == resolveProvider(s, Undefined, w)
           dispatched == answer # "resolveThrows" /\ ~Falsy(provider)
                         /\ provider.request # "absent"
           failure == IF answer = "resolveThrows" THEN ResolveFailure
                      ELSE IF dispatched /\ answer = "rejected" THEN e
                      ELSE NoError
       IN call' = [fn |-> "switchWalletChain", signer |-> s, wallet |-> w,
                   requests |-> IF dispatched THEN <<SwitchRequest(provider.id)>> ELSE <<>>,
                   failure |-> failure,
                   outcome |-> IF failure = NoError THEN Returned(Undefined)
                               ELSE Thrown(WrapSwitchFailure(failure))]
  /\ UNCHANGED <<args, world, swVars, wfVars, formVars, pageVars>>

InitHelpers ==
  /\ ethereum = Undefined
  /\ walletChain = 1
  /\ ethListeners = <<>>
  /\ provListeners = <<>>
  /\ requests = <<>>
  /\ emitLog = <<>>
  /\ desiredChainId \in Chains
  /\ wagmiSigner = Undefined
  /\ wagmiProvider = Undefined
  /\ wallet = Undefined
  /\ options = [timeoutMs |-> Undefined, onChainDetected |-> "absent"]
  /\ pc = "idle"
  /\ settled = FALSE
  /\ timeout = Unset
  /\ probeTimer = Unset
  /\ callbackCalls = <<>>
  /\ rejectedWith = NoError
  /\ outcome = Pending
  /\ WaitIdle
  /\ FormIdle
  /\ call = NoCall

NextHelpers ==
  \/ CallParseChainId
  \/ CallResolveProvider
  \/ CallResolveSigner
  \/ CallSwitchWalletChain
  \/ CallProcessTransactionReceipt
  \/ CallDetectChainId
  \/ CallBuildErrorDiagnostics

SpecHelpers == InitHelpers /\ [][NextHelpers]_vars

(***************************************************************************)
(* Properties of switchWalletChainWithConfirmation (Spec).                 *)
(***************************************************************************)
Matches(chainHex) == parseChainId(chainHex) = Num(desiredChainId)
Success == Returned(SwitchResult(TRUE, Num(desiredChainId), Undefined))
Failure(cid, code) == Returned(SwitchResult(FALSE, cid, Text(code)))
Rejected == rejectedWith # NoError
RejectedWithCode(codes) ==
  Rejected /\ ~Nullish(rejectedWith) /\ rejectedWith.code \in codes
\* a matching event delivered to the registered listener while the race was open
MatchHeardInRace ==
  \E i \in 1..Len(emitLog) :
    Matches(emitLog[i].payload) /\ emitLog[i].heard /\ ~emitLog[i].settled
\* a matching event emitted after the dispatch and before the timer expired
MatchBeforeTimeout ==
  \E i \in 1..Len(emitLog) :
    Matches(emitLog[i].payload) /\ emitLog[i].timer \in {"unset", "armed"}
ProbedChain ==
  detectChainId(resolveProvider(wagmiSigner, wagmiProvider, wallet), wallet, walletChain)

\* C1: no exception escapes switchWalletChainWithConfirmation: the call never
\* completes by throwing, and a switch request rejected with a code other
\* than 4902/4001 (injected surface) or rejected at all (generic requester)
\* returns {success:false, newChainId:null, error: the exception's message
\* or "UNKNOWN_ERROR"}.
C1_NoExceptionEscapes ==
  /\ outcome.kind # "throw"
  /\ (Branch = "injected" /\ Rejected /\ ~RejectedWithCode({CodeChainNotConfigured, CodeUserRejected}))
       => outcome = Returned(SwitchResult(FALSE, Null,
                      IF Nullish(rejectedWith)
                      THEN Text("Cannot read properties of null (reading 'code')")
                      ELSE IF rejectedWith.message = Undefined THEN Text("UNKNOWN_ERROR")
                      ELSE rejectedWith.message))
  /\ (Branch = "generic" /\ Rejected)
       => /\ outcome.kind = "return"
          /\ ~outcome.value.success
          /\ outcome.value.newChainId = Null
          /\ outcome.value.error.t = "string"
          /\ outcome.value.error # Text("UNKNOWN_ERROR")
C1_Witness ==
  /\ Branch = "injected"
  /\ RejectedWithCode({0 - 32000})
  /\ outcome = Failure(Null, "UNKNOWN_ERROR")

\* C2: for an injected wallet whose switch request is accepted, a
\* chainChanged event carrying the requested chain emitted at any time after
\* the dispatch and before the timeout has elapsed makes the call return
\* {success:true, newChainId: requested}.
C2_EventAfterDispatchConfirms ==
  (isInjectedWallet /\ pc = "returned" /\ requests # <<>> /\ ~Rejected /\ MatchBeforeTimeout)
    => outcome = Success

\* C3: a chainChanged event with the requested chain delivered before the
\* timeout yields {success:true, newChainId: requested} and exactly one
\* invocation of onChainDetected with that id.
C3_MatchingEventSucceedsOnce ==
  MatchHeardInRace
    => /\ outcome = Success
       /\ options.onChainDetected # "absent" => callbackCalls = <<Num(desiredChainId)>>

\* C4: after a successfully issued request, when the timer expires without a
\* matching event before it, or the fallback probe does not match, the call
\* has returned {success:false, error:"TIMEOUT_OR_MISMATCH"}.
C4_TimeoutYieldsMismatch ==
  /\ (timeout.state = "fired" /\ ~MatchBeforeTimeout)
       => pc = "returned" /\ outcome = Failure(Null, "TIMEOUT_OR_MISMATCH")
  /\ (probeTimer.state = "fired" /\ ProbedChain # Num(desiredChainId))
       => pc = "returned" /\ outcome = Failure(ProbedChain, "TIMEOUT_OR_MISMATCH")
C4_Witness ==
  /\ timeout.state = "fired"
  /\ timeout.ms = DefaultTimeoutMs
  /\ requests # <<>>
  /\ Len(emitLog) > 0
  /\ \A i \in 1..Len(emitLog) : emitLog[i].heard /\ ~Matches(emitLog[i].payload)
  /\ outcome = Failure(Null, "TIMEOUT_OR_MISMATCH")

\* C5: a request through window.ethereum rejected with 4902 returns
\* CHAIN_NOT_CONFIGURED, with 4001 USER_REJECTED, and in both cases no
\* chainChanged listener is registered and no timer started.
C5_RejectionCodesReturnAtOnce ==
  (Branch = "injected" /\ RejectedWithCode({CodeChainNotConfigured, CodeUserRejected}))
    => /\ outcome = Failure(Null, IF rejectedWith.code = 4902 THEN "CHAIN_NOT_CONFIGURED"
                                  ELSE "USER_REJECTED")
       /\ ethListeners = <<>>
       /\ timeout = Unset
       /\ probeTimer = Unset
C5_Witness ==
  /\ Branch = "injected"
  /\ RejectedWithCode({CodeUserRejected})
  /\ pc = "returned"
  /\ emitLog # <<>>

\* C6: a wallet of client type "privy" always gets
\* EMBEDDED_WALLET_UNSUPPORTED, whatever the shape of its record, and no
\* wallet_switchEthereumChain request is issued.
C6_EmbeddedNeverSwitches ==
  (~Nullish(wallet) /\ wallet.walletClientType = "privy")
    => /\ requests = <<>>
       /\ pc = "returned" => outcome = Failure(Null, "EMBEDDED_WALLET_UNSUPPORTED")

\* C7: once the call has returned, the chainChanged listener it registered
\* on window.ethereum is registered no more.
C7_NoListenerAfterReturn ==
  (pc = "returned" /\ ethereum.t = "ethereum" /\ ethereum.removeListener) => ~Listening

\* the outcome codes of a SwitchResult
OutcomeCodes ==
  {"CHAIN_NOT_CONFIGURED", "USER_REJECTED", "EMBEDDED_WALLET_UNSUPPORTED",
   "TIMEOUT_OR_MISMATCH", "NO_PROVIDER", "UNKNOWN_ERROR"}

\* the exception the top-level catch receives after a rejection: the
\* rethrown rejection (or the TypeError of reading the code of a null one)
\* on the injected path, the wrapped failure on the generic path
CaughtAtTopLevel ==
  IF Branch = "injected"
  THEN IF Nullish(rejectedWith) THEN TypeErrorOnNull ELSE rejectedWith
  ELSE WrapSwitchFailure(rejectedWith)

\* C19 as stated: every result switchWalletChainWithConfirmation returns
\* has an error field that is none or one of the outcome codes
\* CHAIN_NOT_CONFIGURED, USER_REJECTED, EMBEDDED_WALLET_UNSUPPORTED,
\* TIMEOUT_OR_MISMATCH, NO_PROVIDER, UNKNOWN_ERROR.
C19_ErrorIsOutcomeCode ==
  outcome.kind = "return" =>
    \/ Nullish(outcome.value.error)
    \/ outcome.value.error \in {Text(code) : code \in OutcomeCodes}

\* C19: every result switchWalletChainWithConfirmation returns has an
\* error field that is none on success, one of the outcome codes
\* CHAIN_NOT_CONFIGURED, USER_REJECTED, EMBEDDED_WALLET_UNSUPPORTED,
\* TIMEOUT_OR_MISMATCH, NO_PROVIDER, or, for an exception caught at the
\* top level, the message of that exception, UNKNOWN_ERROR standing in
\* when it has none.
C19_ErrorIsCodeOrMessage ==
  outcome.kind = "return" =>
    \/ outcome.value.success /\ Nullish(outcome.value.error)
    \/ /\ ~outcome.value.success
       /\ outcome.value.error \in {Text(code) : code \in OutcomeCodes \ {"UNKNOWN_ERROR"}}
    \/ /\ ~outcome.value.success
       /\ outcome.value.newChainId = Null
       /\ Rejected
       /\ outcome.value.error = Coalesce(CaughtAtTopLevel.message, Text("UNKNOWN_ERROR"))

\* a rejection with a message and an unrecognised code was caught at the
\* top level and its message is the error of the result
C19_Witness ==
  /\ outcome.kind = "return"
  /\ Rejected
  /\ ~Nullish(rejectedWith)
  /\ rejectedWith.code = 0 - 32603
  /\ outcome.value.error = rejectedWith.message

\* the switch request was issued and accepted, and window.ethereum offers
\* no chainChanged subscription
ConfirmingWithoutSurface ==
  /\ ~EthHasOn
  /\ requests # <<>>
  /\ ~Rejected
  /\ pc \notin {"start", "awaitSwitch", "awaitGeneric"}

\* C25: when no chainChanged subscription surface exists after a
\* successfully issued request, the overall timeout is not used; after a
\* fixed delay of 2 s the chain is probed once through resolveProvider and
\* detectChainId, and the call returns success iff the detected chain is
\* the requested one, else {success:false, newChainId: the detected chain
\* or none, error:"TIMEOUT_OR_MISMATCH"}.
C25_ProbeDecidesWithoutSurface ==
  ConfirmingWithoutSurface =>
    /\ timeout.state = "cleared"
    /\ probeTimer.ms = ProbeDelayMs
    /\ probeTimer.state = "armed" => pc = "probeDelay" /\ outcome = Pending
    /\ probeTimer.state = "fired" =>
         /\ pc = "returned"
         /\ outcome = IF ProbedChain = Num(desiredChainId) THEN Success
                      ELSE Failure(ProbedChain, "TIMEOUT_OR_MISMATCH")
    /\ callbackCalls \in {<<>>, <<Num(desiredChainId)>>}

\* C25 when the onChainDetected callback does not raise
C25_ProbeDecidesCallbackReturns ==
  options.onChainDetected # "throws" => C25_ProbeDecidesWithoutSurface

\* C26: every result of switchWalletChainWithConfirmation reports success
\* only with newChainId equal to the requested chain and no error, and
\* failure only with a non-empty error; no result reports success for
\* another chain.
C26_ResultIsConsistent ==
  outcome.kind = "return" =>
    /\ outcome.value.success =>
         /\ outcome.value.newChainId = Num(desiredChainId)
         /\ Nullish(outcome.value.error)
    /\ ~outcome.value.success => Truthy(outcome.value.error)

\* C26 for every result but the one made from an exception with an empty
\* message
C26_ConsistentButEmptyMessage ==
  (Rejected /\ ~Nullish(rejectedWith) /\ rejectedWith.message = Text("") /\ Branch = "injected")
    \/ C26_ResultIsConsistent

\* the switch request has settled without ending the call
RequestSettled == pc \notin {"start", "awaitSwitch", "awaitGeneric", "returned"}

\* C27: every invocation whose switch request settles eventually returns a
\* SwitchResult, whatever chainChanged events arrive and whether or not
\* onChainDetected raises, and on the event path it has returned once the
\* timeoutMs timer has expired.
C27_AlwaysReturns ==
  /\ RequestSettled ~> pc = "returned"
  /\ [](timeout.state = "fired" => pc = "returned")

\* C27 for callbacks that do not raise
C27_ReturnsWhenCallbackReturns ==
  (RequestSettled /\ options.onChainDetected # "throws") ~> pc = "returned"

\* this step delivers to the registered listener, the race still open, an
\* event that does not carry the requested chain
MismatchDelivered ==
  /\ Len(emitLog') = Len(emitLog) + 1
  /\ LET e == emitLog'[Len(emitLog')]
     IN e.heard /\ ~e.settled /\ ~Matches(e.payload)
\* such an event leaves the wait as it was
MismatchIgnored ==
  MismatchDelivered =>
    UNCHANGED <<settled, timeout, probeTimer, ethListeners, callbackCalls, pc, outcome>>
\* a matching event was delivered in the open race after one that did not
\* match
MatchAfterMismatch ==
  \E i, j \in 1..Len(emitLog) :
    /\ i < j
    /\ emitLog[i].heard /\ ~emitLog[i].settled /\ ~Matches(emitLog[i].payload)
    /\ emitLog[j].heard /\ ~emitLog[j].settled /\ Matches(emitLog[j].payload)

\* C28: in the event wait a chainChanged event whose chain differs from
\* the requested one, or cannot be parsed, does not settle the wait: the
\* listener stays registered, the timer keeps running and the callback is
\* not invoked; a later event carrying the requested chain before the
\* timeout still yields success.
C28_MismatchDoesNotSettle ==
  [][MismatchIgnored]_vars /\ [](MatchAfterMismatch => outcome = Success)

\* C28 for callbacks that do not raise
C28_WhenCallbackReturns ==
  /\ [][MismatchIgnored]_vars
  /\ []((MatchAfterMismatch /\ options.onChainDetected # "throws") => outcome = Success)

(***************************************************************************)
(* Properties of waitForChainChangeEvent (SpecWait).                       *)
(***************************************************************************)
\* C8: once the wait has settled, by the event or by the timeout, the
\* handler it attached is registered no more, neither on window.ethereum
\* nor on the provider.
C8_NoListenerAfterSettle ==
  (wPc = "resolved" /\ (Has(attached, "chainChanged") => ethereum.removeListener))
    => ~Has(ethListeners, "ethHandler") /\ ~Has(provListeners, "networkHandler")

\* C9: a call registers at most one listener: chainChanged on
\* window.ethereum when that surface is available, else the provider's
\* network event when the provider supports it; when neither can be
\* attached the timer is cancelled and the wait resolves null at once.
C9_AtMostOneListener ==
  LET ethOk == ethereum.t = "ethereum" /\ ethereum.on = "ok"
      provOk == ProviderHasOn(waitProvider) /\ waitProvider.on = "ok"
  IN /\ Len(attached) <= 1
     /\ Count(ethListeners, "ethHandler") + Count(provListeners, "networkHandler") <= 1
     /\ wPc # "start" =>
          /\ ethOk => attached = <<"chainChanged">>
          /\ (~ethOk /\ provOk) => attached = <<"network">>
          /\ (~ethOk /\ ~provOk) =>
               /\ attached = <<>>
               /\ ethListeners = <<>> /\ provListeners = <<>>
               /\ timer.state = "cleared"
               /\ wPc = "resolved" /\ resolved = Resolved(Null)
C9_Witness ==
  /\ wPc = "waiting"
  /\ ethereum.t = "ethereum" /\ ethereum.on = "throws"
  /\ attached = <<"network">>
  /\ provListeners = <<"networkHandler">>

\* what a delivered event makes the wait resolve with
EventResult(payload) ==
  IF payload.t = "network"
  THEN IF payload.chainId.t = "number" THEN payload.chainId ELSE Null
  ELSE parseChainId(payload)
\* the events delivered to the wait's handler before it had settled
DeliveredInTime ==
  {i \in 1..Len(emitLog) : emitLog[i].heard /\ ~emitLog[i].settled}
\* the result is that of the first event delivered in time, none without one
RaceResult ==
  /\ Cardinality(DeliveredInTime) <= 1
  /\ wPc # "resolved" => resolved = Pending /\ DeliveredInTime = {}
  /\ wPc = "resolved" =>
       resolved = Resolved(IF DeliveredInTime = {} THEN Null
                           ELSE EventResult(emitLog[CHOOSE i \in DeliveredInTime : TRUE].payload))
\* once settled, the result changes no more
SettlesOnce == resolved # Pending => resolved' = resolved

\* C24: waitForChainChangeEvent settles exactly once.  Its result is the
\* parsed chain id carried by the first event delivered before the timer
\* expires, none if that payload cannot be parsed, and none if the timer
\* expires first; an event or a timer expiry after settlement changes
\* nothing.
C24_SingleShotRace == []RaceResult /\ [][SettlesOnce]_vars

\* the first event settled the wait; a later one, carrying another chain
\* and delivered to the handler still registered, changed nothing
C24_Witness ==
  /\ Len(emitLog) = 2
  /\ emitLog[1].heard /\ ~emitLog[1].settled
  /\ emitLog[2].heard /\ emitLog[2].settled
  /\ EventResult(emitLog[1].payload) # Null
  /\ EventResult(emitLog[2].payload) # Null
  /\ EventResult(emitLog[1].payload) # EventResult(emitLog[2].payload)
  /\ resolved = Resolved(EventResult(emitLog[1].payload))

(***************************************************************************)
(* Properties of the submit flow (SpecSubmit).                             *)
(***************************************************************************)
\* the chain the wallet was on when the submission under way began
ChainAtSubmit == submitLog[Len(submitLog)]

\* detection answered the requested chain when the submission began, and
\* the wallet has not moved since
AlreadyOnRequestedChain ==
  /\ submitLog # <<>>
  /\ chainIdProp.t = "number"
  /\ walletChain = ChainAtSubmit
  /\ detectChainId(resolveProvider(wagmiSigner, wagmiProvider, selectedWallet),
                   selectedWallet, ChainAtSubmit) = chainIdProp

\* the submission under way has issued a switch request and awaits its answer
SwitchRequestPending ==
  /\ fPc = "switching"
  /\ requests # <<>>
  /\ requests[Len(requests)].method = "wallet_switchEthereumChain"

\* C10: when the wallet is already on the requested chain (detection
\* returns the requested chain id), the submit flow issues no
\* wallet_switchEthereumChain request before it encodes and submits the
\* attestation.
C10_NoSwitchWhenAlreadyOnChain ==
  AlreadyOnRequestedChain => ~SwitchRequestPending

\* C11: with a requested chain, eas.attest is invoked only after
\* verifyWalletChain returned normally, which it does only if the chain it
\* last observed (the initial detection, or the value of the wait / direct
\* re-probe) equals the requested chain; otherwise the submission ends in
\* the error state with no attestation submitted.
C11_AttestOnlyAfterVerifiedChain ==
  chainIdProp.t = "number" =>
    /\ fPc \in {"attest", "receipt"} => observedChain = chainIdProp
    /\ \A i \in 1..Len(attests) : attests[i].observed = chainIdProp
    /\ (submitLog # <<>> /\ fPc = "idle" /\ observedChain # chainIdProp) =>
         /\ status = "error"
         /\ \A i \in 1..Len(attests) : attests[i].submission # Len(submitLog)

\* an attestation went out after the initial detection mismatched and the
\* wait or the re-probe observed the requested chain
C11_Witness ==
  /\ chainIdProp.t = "number"
  /\ attests # <<>>
  /\ actualChainId # chainIdProp
  /\ observedChain = chainIdProp
  /\ wPc = "resolved"

(***************************************************************************)
(* Properties of the helpers (SpecHelpers).                                *)
(***************************************************************************)
\* what the four strategies yield for a detectChainId call, in their order
StrategyYields(c) ==
  <<Strategy1(c.provider, c.actual), Strategy2(c.provider, c.actual),
    Strategy3(c.wallet), Strategy4(c.provider)>>
\* the first strategy of a detectChainId call that yields a chain id, or 0
FirstYielding(c) ==
  LET hits == {i \in 1..4 : StrategyYields(c)[i] # Null}
  IN IF hits = {} THEN 0 ELSE CHOOSE i \in hits : \A j \in hits : i <= j

\* C12: detectChainId returns the chain id of the first strategy, in the
\* order network query, eth_chainId request, wallet chain field, raw
\* property, that yields one; a strategy that throws or yields nothing is
\* passed over, no strategy after the yielding one is entered, and when
\* none yields the result is none, without a throw.
C12_FirstYieldingStrategyWins ==
  call.fn = "detectChainId" =>
    /\ call.outcome.kind = "return"
    /\ call.outcome.value = IF FirstYielding(call) = 0 THEN Null
                            ELSE StrategyYields(call)[FirstYielding(call)]
    /\ \A i \in 1..Len(call.attempts) :
         /\ FirstYielding(call) # 0 => call.attempts[i] <= FirstYielding(call)
         /\ \A j \in 1..(i - 1) : call.attempts[j] < call.attempts[i]

\* the network query yielded the chain and the request of a provider that
\* has one was never dispatched
C12_Witness ==
  /\ call.fn = "detectChainId"
  /\ call.provider.t = "provider"
  /\ call.provider.request = "hex"
  /\ call.attempts = <<1>>
  /\ call.outcome = Returned(Num(call.actual))

\* well-formed numbers and numerals that are no chain id
OutOfRange == {Num(0 - 1), NaN, Str(<<"-", "1", "0">>)}

\* C13: parseChainId maps the number N, "eip155:N", "0x" and N in
\* hexadecimal, and the decimal string "N" to the same integer N, and any
\* other input (an object, a malformed string, a string whose parse is
\* not-a-number) to none.
C13_FourShapesElseNone ==
  call.fn = "parseChainId" =>
    /\ \A n \in ParseChains :
         call.value \in ShapesOf(n) => call.outcome = Returned(Num(n))
    /\ call.value \in Malformed \ OutOfRange => call.outcome = Returned(Null)

\* C14: for every input parseChainId returns, without throwing, either
\* none or a ChainId, a non-negative integer.
C14_NoneOrChainId ==
  call.fn = "parseChainId" =>
    /\ call.outcome.kind = "return"
    /\ \/ call.outcome.value = Null
       \/ call.outcome.value.t = "number" /\ call.outcome.value.n \in Nat

\* the candidates of a resolveProvider call in their precedence: the
\* signer's provider, the supplied provider, the wallet's provider field,
\* what the wallet's accessor resolves to
Candidates(c) ==
  <<IF Nullish(c.signer) THEN Undefined ELSE c.signer.provider,
    c.provider,
    IF Nullish(c.wallet) THEN Undefined ELSE c.wallet.provider,
    IF Nullish(c.wallet) \/ c.wallet.getEthereumProvider.t # "provider" THEN Undefined
    ELSE c.wallet.getEthereumProvider>>

\* C15: resolveProvider returns the first non-empty candidate in the
\* precedence signer's provider, supplied provider, wallet provider field,
\* result of the wallet's accessor; the accessor is invoked only when the
\* first three are empty, its failure is swallowed, and the result is
\* none when every candidate is empty.
C15_FirstCandidateWins ==
  call.fn = "resolveProvider" =>
    LET cs == Candidates(call)
        hits == {i \in 1..4 : ~Nullish(cs[i])}
    IN /\ call.outcome.kind = "return"
       /\ IF hits = {} THEN Nullish(call.outcome.value)
          ELSE call.outcome.value = cs[CHOOSE i \in hits : \A j \in hits : i <= j]
       /\ call.accessorInvoked => \A i \in 1..3 : Nullish(cs[i])

\* the accessor was invoked, rejected, and the call returned none
C15_Witness ==
  /\ call.fn = "resolveProvider"
  /\ call.accessorInvoked
  /\ call.wallet.getEthereumProvider = Throws
  /\ call.outcome = Returned(Null)

\* the no-wallet failure of resolveSigner
NoWalletFailure(c) == c.outcome = Thrown(Err("No connected wallets"))

\* C16: resolveSigner fails with the no-wallet condition exactly when the
\* wallet list is empty and no signer can be constructed; with a signer
\* supplied it does not fail for lack of wallets.
C16_NoWalletOnlyWithoutSigner ==
  call.fn = "resolveSigner" =>
    /\ NoWalletFailure(call) <=> (call.wallets = <<>> /\ Falsy(call.signer))
    /\ ~Falsy(call.signer) => call.outcome.kind = "return"

\* letters that differ by case only
CasePairs == {<<UpperHex[j], HexDigits[10 + j]>> : j \in 1..Len(UpperHex)}
\* two strings are equal ignoring case
SameIgnoringCase(a, b) ==
  /\ Len(a) = Len(b)
  /\ \A i \in 1..Len(a) :
       a[i] = b[i] \/ <<a[i], b[i]>> \in CasePairs \/ <<b[i], a[i]>> \in CasePairs
\* the wallets of a resolveSigner call whose address is the signer's
AddressMatches(c) ==
  {i \in 1..Len(c.wallets) :
     /\ c.signer.address # Throws
     /\ c.wallets[i].address.t = "string"
     /\ SameIgnoringCase(c.wallets[i].address.s, c.signer.address.s)}

\* C17: with a signer supplied and a non-empty wallet list, the returned
\* signer is that signer, selectedWallet is the wallet whose address equals
\* the signer's ignoring case, and it is none, without failure, when no
\* wallet matches or the address lookup fails.
C17_SuppliedSignerKept ==
  (call.fn = "resolveSigner" /\ ~Falsy(call.signer) /\ call.wallets # <<>>) =>
    /\ call.outcome.kind = "return"
    /\ call.outcome.value.signer = call.signer
    /\ IF AddressMatches(call) = {}
       THEN call.outcome.value.selectedWallet = Undefined
       ELSE \E i \in AddressMatches(call) :
              call.outcome.value.selectedWallet = call.wallets[i]

\* the supplied signer was kept and matched a wallet whose address is
\* written in another case
C17_Witness ==
  /\ call.fn = "resolveSigner"
  /\ ~Falsy(call.signer)
  /\ call.outcome.kind = "return"
  /\ call.outcome.value.signer = call.signer
  /\ call.outcome.value.selectedWallet.t = "wallet"
  /\ call.outcome.value.selectedWallet.address # call.signer.address

\* C18: whenever switchWalletChain fails, by provider resolution throwing
\* or by the wallet rejecting the request, the error it raises carries the
\* diagnostic {cause: the original error, requestedChainId: the desired
\* chain}; the bare failure never escapes.
C18_SwitchFailureWrapped ==
  call.fn = "switchWalletChain" =>
    /\ call.failure # NoError <=> call.outcome.kind = "throw"
    /\ call.outcome.kind = "throw" =>
         /\ "diagnostic" \in DOMAIN call.outcome.error
         /\ call.outcome.error.diagnostic =
              [cause |-> call.failure, requestedChainId |-> desiredChainId]

\* the wallet rejected the request and the wrapped error came out
C18_Witness ==
  /\ call.fn = "switchWalletChain"
  /\ call.requests # <<>>
  /\ call.failure \in Rejections
  /\ call.outcome.kind = "throw"
  /\ call.outcome.error.diagnostic.cause = call.failure

\* a 66-character 0x-hex string
Bytes32Hex(v) ==
  /\ v.t = "string"
  /\ Len(v.s) = 66
  /\ v.s[1] = "0"
  /\ v.s[2] = "x"
  /\ \A k \in 3..66 : IsHexDigit(v.s[k])
\* the first run of 64 hex digits of a text, written with its 0x, or none
FirstHexRun(s) ==
  LET runs == {i \in 1..(Len(s) - 63) : \A k \in 0..63 : IsHexDigit(s[i + k])}
  IN IF runs = {} THEN Null
     ELSE LET first == CHOOSE i \in runs : \A j \in runs : i <= j
          IN Str(<<"0", "x">> \o SubSeq(s, first, first + 63))
\* what one log contributes: its second topic if that is a 0x-hex string of
\* 66 characters, otherwise the first 64-hex-digit run of its data
LogCandidate(log) ==
  IF Len(log.topics) >= 2 /\ Bytes32Hex(log.topics[2]) THEN log.topics[2]
  ELSE IF log.data.t = "string" THEN FirstHexRun(log.data.s)
  ELSE Null
\* the finality result of a processTransactionReceipt call names no uid
NoIdentifier(c) ==
  /\ c.waited.kind = "return"
  /\ \/ Falsy(c.waited.value)
     \/ c.waited.value.t = "object" /\ Falsy(c.waited.value.uid)
\* the logs of the receipt the call locates: the transaction's, else the
\* one the finality result carries
LocatedLogs(c) ==
  LET receipt == IF ~Nullish(c.tx.receipt) THEN c.tx.receipt
                 ELSE IF ~Falsy(c.waited.value) /\ c.waited.value.t = "object"
                   THEN c.waited.value.receipt
                 ELSE Null
  IN IF Falsy(receipt) \/ Falsy(receipt.logs) THEN <<>> ELSE receipt.logs.items

\* C20: when the finality result supplies no identifier, attestationUID is
\* found by scanning the located receipt's logs in order, each log giving
\* its second topic if that is a 66-character 0x-hex string and otherwise
\* the first 64-hex-digit run of its data, the first match over all logs
\* winning; so a receipt whose logs[0].topics[1] is such a string yields it.
C20_UidFromFirstMatchingLog ==
  (call.fn = "processTransactionReceipt" /\ NoIdentifier(call)) =>
    LET logs == LocatedLogs(call)
        hits == {i \in 1..Len(logs) : LogCandidate(logs[i]) # Null}
    IN /\ call.outcome.kind = "return"
       /\ call.outcome.value.attestationUID =
            IF hits = {} THEN Null
            ELSE LogCandidate(logs[CHOOSE i \in hits : \A j \in hits : i <= j])
       /\ (Len(logs) >= 1 /\ Len(logs[1].topics) >= 2 /\ Bytes32Hex(logs[1].topics[2]))
            => call.outcome.value.attestationUID = logs[1].topics[2]

\* the wait named no uid and the uid came from the second topic of the
\* first log, whose data holds another value
C20_Witness ==
  /\ call.fn = "processTransactionReceipt"
  /\ call.waited = Returned(Null)
  /\ LocatedLogs(call) # <<>>
  /\ LocatedLogs(call)[1] = Log(<<EventSignature, Bytes32("d")>>, Bytes32("e"))
  /\ call.outcome.kind = "return"
  /\ call.outcome.value.attestationUID = Bytes32("d")

\* the hashes a failed wait can name, in the order they are preferred
HashSources(c) ==
  <<OptGet(OptGet(c.waited.error, "receipt"), "transactionHash"),
    OptGet(c.waited.error, "transactionHash"),
    OptGet(c.tx, "hash")>>

\* C21: when the finality wait throws, processTransactionReceipt throws an
\* error carrying a diagnostic with a message, the error's receipt and
\* transaction when it has them, and txHash: the hash of the error's
\* receipt if it carries one, else the error's own transactionHash, else
\* the transaction handle's hash, else none; no result record is returned.
C21_WaitFailureDiagnostic ==
  (call.fn = "processTransactionReceipt" /\ call.waited.kind = "throw") =>
    LET e == call.waited.error
        sources == HashSources(call)
        named == {i \in 1..3 : ~Nullish(sources[i])}
    IN /\ call.outcome.kind = "throw"
       /\ "diagnostic" \in DOMAIN call.outcome.error
       /\ LET d == call.outcome.error.diagnostic
          IN /\ {"message", "receipt", "transaction", "txHash"} \subseteq DOMAIN d
             /\ d.message.t = "string"
             /\ d.receipt = (IF Nullish(OptGet(e, "receipt")) THEN Null ELSE e.receipt)
             /\ d.transaction = (IF Nullish(OptGet(e, "transaction")) THEN Null
                                 ELSE e.transaction)
             /\ d.txHash = (IF named = {} THEN Null
                            ELSE sources[CHOOSE i \in named : \A j \in named : i <= j])

\* a wait failed with an error whose receipt, own field and transaction
\* handle name three different hashes, and the receipt's was reported
C21_Witness ==
  /\ call.fn = "processTransactionReceipt"
  /\ call.waited.kind = "throw"
  /\ \A i \in 1..3 : ~Nullish(HashSources(call)[i])
  /\ Cardinality({HashSources(call)[i] : i \in 1..3}) = 3
  /\ call.outcome.kind = "throw"
  /\ call.outcome.error.diagnostic.txHash = Str(<<"0", "x", "7">>)

\* the chain id a diagnostic field names as a number, or 0 when it is no
\* number
NamedChain(v) == IF "t" \in DOMAIN v /\ v.t = "number" THEN v.n ELSE 0
\* the network name the metadata gives chain id n, else "chain <n>"
ExpectedName(lookup, n) ==
  IF lookup = "metadata" /\ ToString(n) \in DOMAIN NETWORK_METADATA
  THEN NETWORK_METADATA[ToString(n)].chain
  ELSE Text("chain " \o ToString(n))
\* the message has v among the values it is built from
Mentions(message, v) ==
  /\ "parts" \in DOMAIN message
  /\ \E i \in 1..Len(message.parts) : message.parts[i] = v

\* C22: when the error's diagnostic carries a requested and an actual chain
\* id that differ, userMessage contains both numeric ids and both network
\* names, a name being the one the metadata lookup gives the chain and
\* "chain <id>" when the metadata has no entry for it.
C22_MismatchMessageNamesBoth ==
  (/\ call.fn = "buildErrorDiagnostics"
   /\ call.lookup # "throws"
   /\ "diagnostic" \in DOMAIN call.error
   /\ NamedChain(OptGet(call.error.diagnostic, "requestedChainId")) # 0
   /\ NamedChain(OptGet(call.error.diagnostic, "actualChainId")) # 0
   /\ OptGet(call.error.diagnostic, "requestedChainId")
        # OptGet(call.error.diagnostic, "actualChainId")) =>
    LET requested == call.error.diagnostic.requestedChainId.n
        actual == call.error.diagnostic.actualChainId.n
        message == call.outcome.value.userMessage
    IN /\ Mentions(message, Text(ToString(requested)))
       /\ Mentions(message, Text(ToString(actual)))
       /\ Mentions(message, ExpectedName(call.lookup, requested))
       /\ Mentions(message, ExpectedName(call.lookup, actual))

\* sepolia was requested while the wallet was on celo, and the message
\* names both
C22_Witness ==
  /\ call.fn = "buildErrorDiagnostics"
  /\ call.lookup = "metadata"
  /\ "diagnostic" \in DOMAIN call.error
  /\ OptGet(call.error.diagnostic, "requestedChainId") = Num(11155111)
  /\ OptGet(call.error.diagnostic, "actualChainId") = Num(42220)
  /\ Mentions(call.outcome.value.userMessage, Text("sepolia"))
  /\ Mentions(call.outcome.value.userMessage, Text("celo"))
  /\ Mentions(call.outcome.value.userMessage, Text("11155111"))
  /\ Mentions(call.outcome.value.userMessage, Text("42220"))

\* an unnamed chain was requested and the message calls it "chain 1"
C22_WitnessUnnamed ==
  /\ call.fn = "buildErrorDiagnostics"
  /\ call.lookup = "metadata"
  /\ "diagnostic" \in DOMAIN call.error
  /\ OptGet(call.error.diagnostic, "requestedChainId") = Num(1)
  /\ OptGet(call.error.diagnostic, "actualChainId") = Num(8453)
  /\ Mentions(call.outcome.value.userMessage, Text("chain 1"))
  /\ Mentions(call.outcome.value.userMessage, Text("base"))

\* the diagnostic a caught error carries: its attachment, else itself
CarriedDiagnostic(error) ==
  IF "diagnostic" \in DOMAIN error THEN error.diagnostic ELSE error
\* the requested chain resolved for a call: parsed from the diagnostic,
\* else the caller's intended chain
ResolvedRequested(c) ==
  LET d == CarriedDiagnostic(c.error)
      parsed == parseChainId(Coalesce(OptGet(d, "requestedChainId"),
                                      OptGet(d, "requestedChain")))
  IN Coalesce(Coalesce(parsed, c.activeChain), Null)
\* the actual chain resolved for a call: parsed from the diagnostic (or the
\* diagnostic of its cause), else the parsed wallet-snapshot chain
ResolvedActual(c) ==
  LET d == CarriedDiagnostic(c.error)
      inner == OptGet(OptGet(OptGet(d, "cause"), "diagnostic"), "actualChainId")
      parsed == parseChainId(Coalesce(Coalesce(OptGet(d, "actualChainId"), inner), Null))
      snapshot == Coalesce(OptGet(OptGet(OptGet(d, "probeInfo"), "selectedWalletSnapshot"),
                                  "chainId"),
                           Coalesce(OptGet(OptGet(d, "selectedWalletSnapshot"), "chainId"),
                                    Null))
  IN Coalesce(Coalesce(parsed, parseChainId(snapshot)), Null)

\* C23: in the record buildErrorDiagnostics returns, diagnosticDetails
\* holds the resolved requested and actual chain ids under requestedChainId
\* and actualChainId whatever fields the upstream error attached, and the
\* attached stack is not merged in.
C23_DetailsHoldResolvedChains ==
  (call.fn = "buildErrorDiagnostics" /\ call.lookup # "throws") =>
    LET details == call.outcome.value.diagnosticDetails
    IN /\ details.requestedChainId = ResolvedRequested(call)
       /\ details.actualChainId = ResolvedActual(call)

(***************************************************************************)
(* The form's Submit and Reset buttons with every submission that has      *)
(* begun.  onSubmit starts an asynchronous function that runs on through   *)
(* its awaits whatever the form state becomes; flights[i] is the await the *)
(* i-th one is suspended at, "done" once it has recorded its outcome.      *)
(***************************************************************************)
MaxFlights == 2

\* the awaits of onSubmit's try block, in order; the switch and the
\* verification are awaited only when the chainId prop is a number
Awaits ==
  IF chainIdProp.t = "number"
  THEN <<"resolveSigner", "switchWalletChain", "verifyWalletChain", "connect",
         "attest", "processTransactionReceipt", "done">>
  ELSE <<"resolveSigner", "connect", "attest", "processTransactionReceipt", "done">>

\* the await that follows `at`
NextAwait(at) == Awaits[1 + CHOOSE k \in 1..(Len(Awaits) - 1) : Awaits[k] = at]

\* the submissions that have not recorded their outcome
InFlight == {i \in 1..Len(flights) : flights[i] # "done"}

\* what the two buttons and the submissions leave alone
FormUnchanged ==
  UNCHANGED <<args, world, swVars, wfVars, helperVars, chainIdProp, wallets, schemaInfo,
              fPc, signer, selectedWallet, actualChainId, attests, submitLog,
              observedChain, effectRuns,
              detectedWalletChain, componentMounted>>

\* a Reset button that is disabled while a submission is in flight
onResetWhenSettled ==
  /\ InFlight = {}
  /\ status' = "idle"
  /\ response' = Null
  /\ errorInfo' = Null
  /\ recordedBy' = 0
  /\ UNCHANGED flights
  /\ FormUnchanged

\* onReset: the Reset button is never disabled
onReset ==
  /\ status' = "idle"
  /\ response' = Null
  /\ errorInfo' = Null
  /\ recordedBy' = 0
  /\ UNCHANGED flights
  /\ FormUnchanged

\* onSubmit up to its first await; the Submit button is disabled by
\* submitDisabled
onSubmit ==
  /\ ~submitDisabled
  /\ Len(flights) < MaxFlights
  /\ IF Falsy(activeChainId)
     THEN /\ status' = "error"
          /\ errorInfo' = Err("No active chain selected. Please select a network using the selector in the header.")
          /\ UNCHANGED <<response, flights, recordedBy>>
     ELSE /\ status' = "submitting"
          /\ response' = Null
          /\ errorInfo' = Null
          /\ recordedBy' = 0
          /\ flights' = Append(flights, "resolveSigner")
  /\ FormUnchanged

\* the await a submission is suspended at is fulfilled: it runs on to its
\* next await, and after the last one it records its response and success
AwaitFulfilled ==
  \E i \in InFlight :
    /\ flights' = [flights EXCEPT ![i] = NextAwait(flights[i])]
    /\ IF flights'[i] = "done"
       THEN /\ response' = [t |-> "compact", submission |-> i]
            /\ status' = "success"
            /\ recordedBy' = i
            /\ UNCHANGED errorInfo
       ELSE UNCHANGED <<status, response, errorInfo, recordedBy>>
    /\ FormUnchanged

\* the await a submission is suspended at is rejected: its catch records the
\* message and the error status
AwaitRejected ==
  \E i \in InFlight :
    /\ flights' = [flights EXCEPT ![i] = "done"]
    /\ errorInfo' = [t |-> "error", submission |-> i]
    /\ status' = "error"
    /\ recordedBy' = i
    /\ UNCHANGED response
    /\ FormUnchanged

InitForm ==
  /\ InitSubmit
  /\ wallets = <<>>
  /\ schemaInfo = SchemaInfo(TRUE)
  /\ ethereum = Undefined

NextForm ==
  \/ onSubmit
  \/ onReset
  \/ AwaitFulfilled
  \/ AwaitRejected

SpecForm == InitForm /\ [][NextForm]_vars

\* C29: the form never has two submissions in flight, and an outcome the form
\* state holds was recorded by the submission begun last
C29_OneSubmissionInFlight ==
  /\ Cardinality(InFlight) <= 1
  /\ recordedBy \in {0, Len(flights)}

\* two submissions are in flight after Submit, Reset, Submit
C29_TwoInFlight == Cardinality(InFlight) = 2

\* the form state holds the outcome of a submission that was not the last
C29_StaleOutcome == recordedBy # 0 /\ recordedBy < Len(flights)

(***************************************************************************)
(* The form's wallet-chain watcher: the effect that probes the wallet's    *)
(* chain and subscribes to chainChanged on window.ethereum.  effectRuns[i] *)
(* is the closure of the i-th run of the effect: its `mounted` flag, the   *)
(* state of its refresh() probe, and the probeWalletChain it captured.     *)
(***************************************************************************)
MaxRuns == 2

\* the values probeWalletChain depends on: wagmiSigner, wagmiProvider, wallets
WatchDeps ==
  {<<Undefined, Undefined, <<Wallet("privy", Undefined, WalletProvider, Caip(1))>>>>,
   <<Signer(SignerProvider), Undefined, <<>>>>,
   <<Undefined, WithNetwork(WagmiProvider, 1), <<>>>>}

\* the handleChainChanged closure of the i-th run
WatchHandler(i) == "handleChainChanged#" \o ToString(i)

\* probeWalletChain() of a run, settling while the wallet is on walletChain
probeWalletChain(run) ==
  LET first == IF Len(run.wallets) > 0 THEN run.wallets[1] ELSE Undefined
      provider == resolveProvider(run.wagmiSigner, run.wagmiProvider, first)
  IN IF provider = Throws THEN Null
     ELSE detectChainId(provider, first, walletChain)

\* a refresh() that sets the state without looking at `mounted`
RefreshedUnmounted(run, c) == c

\* refresh() after its await: if (!mounted) return; setDetectedWalletChain(c)
Refreshed(run, c) == IF run.mounted THEN c ELSE detectedWalletChain

\* the effect body: mounted = true, refresh() is started, and
\* handleChainChanged is registered when window.ethereum.on is a function
\* and does not throw
RunEffect(runs, ls) ==
  /\ effectRuns' = Append(runs, [mounted |-> TRUE, probe |-> "pending",
                                 wagmiSigner |-> wagmiSigner',
                                 wagmiProvider |-> wagmiProvider',
                                 wallets |-> wallets'])
  /\ ethListeners' = IF ethereum.t = "ethereum" /\ ethereum.on = "ok"
                     THEN Append(ls, WatchHandler(Len(runs) + 1))
                     ELSE ls

\* the cleanup of the latest run: mounted = false
CleanedUp == [effectRuns EXCEPT ![Len(effectRuns)].mounted = FALSE]

\* the cleanup of the latest run: removeListener when it is a function
Unsubscribed == RemoveEthListener(ethListeners, WatchHandler(Len(effectRuns)))

WatchUnchanged ==
  UNCHANGED <<desiredChainId, wallet, options, ethereum, provListeners, requests,
              swVars, wfVars, helperVars, chainIdProp, schemaInfo, status, response,
              errorInfo, fPc, signer, selectedWallet, actualChainId, attests,
              submitLog, observedChain, flights, recordedBy>>

\* the form mounts: the effect runs for the first time
Mount ==
  /\ ~componentMounted
  /\ effectRuns = <<>>
  /\ componentMounted' = TRUE
  /\ UNCHANGED <<wagmiSigner, wagmiProvider, wallets>>
  /\ RunEffect(effectRuns, ethListeners)
  /\ UNCHANGED <<walletChain, emitLog, detectedWalletChain>>
  /\ WatchUnchanged

\* wagmiSigner, wagmiProvider or wallets change: probeWalletChain is a new
\* function, so the cleanup of the latest run runs and the effect runs again
DepsChange ==
  /\ componentMounted
  /\ Len(effectRuns) < MaxRuns
  /\ \E deps \in WatchDeps :
       /\ deps # <<wagmiSigner, wagmiProvider, wallets>>
       /\ wagmiSigner' = deps[1]
       /\ wagmiProvider' = deps[2]
       /\ wallets' = deps[3]
  /\ RunEffect(CleanedUp, Unsubscribed)
  /\ UNCHANGED <<componentMounted, walletChain, emitLog, detectedWalletChain>>
  /\ WatchUnchanged

\* the form unmounts: the cleanup of the latest run runs
Unmount ==
  /\ componentMounted
  /\ componentMounted' = FALSE
  /\ effectRuns' = CleanedUp
  /\ ethListeners' = Unsubscribed
  /\ UNCHANGED <<wagmiSigner, wagmiProvider, wallets, walletChain, emitLog,
                 detectedWalletChain>>
  /\ WatchUnchanged

\* the probe a run's refresh() awaits settles
RefreshSettles ==
  /\ \E i \in 1..Len(effectRuns) :
       /\ effectRuns[i].probe = "pending"
       /\ effectRuns' = [effectRuns EXCEPT ![i].probe =
                           IF effectRuns[i].mounted THEN "applied" ELSE "dropped"]
       /\ detectedWalletChain' = Refreshed(effectRuns[i], probeWalletChain(effectRuns[i]))
  /\ UNCHANGED <<wagmiSigner, wagmiProvider, wallets, walletChain, emitLog,
                 ethListeners, componentMounted>>
  /\ WatchUnchanged

\* window.ethereum emits chainChanged: every handleChainChanged registered
\* on it sets the detected chain to the parsed payload
ChainChanged ==
  /\ Len(emitLog) < MaxEvents
  /\ EthHasOn
  /\ \E chainHex \in Payloads :
       /\ walletChain' = IF parseChainId(chainHex) = Null THEN walletChain
                         ELSE parseChainId(chainHex).n
       /\ emitLog' = Append(emitLog, [heard |-> Len(ethListeners)])
       /\ detectedWalletChain' = IF ethListeners = <<>> THEN detectedWalletChain
                                 ELSE parseChainId(chainHex)
  /\ UNCHANGED <<wagmiSigner, wagmiProvider, wallets, ethListeners, effectRuns,
                 componentMounted>>
  /\ WatchUnchanged

InitWatch ==
  /\ chainIdProp = Undefined
  /\ desiredChainId = 0
  /\ \E deps \in WatchDeps :
       wagmiSigner = deps[1] /\ wagmiProvider = deps[2] /\ wallets = deps[3]
  /\ wallet = Undefined
  /\ options = [timeoutMs |-> Undefined, onChainDetected |-> "absent"]
  /\ ethereum \in {Undefined, Ethereum(TRUE, "ok", TRUE), Ethereum(TRUE, "ok", FALSE),
                   Ethereum(TRUE, "throws", TRUE)}
  /\ InitWorld
  /\ pc = "idle"
  /\ settled = FALSE
  /\ timeout = Unset
  /\ probeTimer = Unset
  /\ callbackCalls = <<>>
  /\ rejectedWith = NoError
  /\ outcome = Pending
  /\ WaitIdle
  /\ schemaInfo = SchemaInfo(TRUE)
  /\ status = "idle"
  /\ response = Null
  /\ errorInfo = Null
  /\ fPc = "idle"
  /\ signer = Undefined
  /\ selectedWallet = Undefined
  /\ actualChainId = Null
  /\ attests = <<>>
  /\ submitLog = <<>>
  /\ observedChain = Null
  /\ PageIdle
  /\ call = NoCall

NextWatch ==
  \/ Mount
  \/ DepsChange
  \/ Unmount
  \/ RefreshSettles
  \/ ChainChanged

SpecWatch == InitWatch /\ [][NextWatch]_vars

\* the form has been unmounted after running its effect
Unmounted == ~componentMounted /\ effectRuns # <<>>

\* each handler is registered at most once, at most one listener is held,
\* and none once the form is unmounted
Balanced ==
  /\ \A i, j \in 1..Len(ethListeners) : ethListeners[i] = ethListeners[j] => i = j
  /\ Len(ethListeners) <= 1
  /\ componentMounted /\ ethListeners # <<>>
       => ethListeners = <<WatchHandler(Len(effectRuns))>>
  /\ Unmounted => ethListeners = <<>>

\* a probe that settles after its run was cleaned up leaves the detected
\* chain as it is
StaleProbeDropped ==
  \A i \in 1..Len(effectRuns) :
    (~effectRuns[i].mounted /\ effectRuns[i].probe = "pending"
     /\ effectRuns'[i].probe # "pending")
      => detectedWalletChain' = detectedWalletChain

\* window.ethereum is absent, or cannot subscribe, or offers removeListener
CanUnsubscribe ==
  ethereum.t = "ethereum" /\ ethereum.on = "ok" => ethereum.removeListener

\* C30 as stated: the watcher holds at most one chainChanged listener, the
\* one of its latest run, and none after unmount, and a probe that settles
\* after cleanup does not update the detected chain
C30_SubscriptionBalanced == []Balanced /\ [][StaleProbeDropped]_vars

\* C30 amended: on a window.ethereum that offers removeListener whenever it
\* offers on, the watcher holds at most one chainChanged listener, the one
\* of its latest run, and none after unmount; and on every window.ethereum a
\* probe that settles after cleanup does not update the detected chain
C30_BalancedWhenRemovable ==
  [](CanUnsubscribe => Balanced) /\ [][StaleProbeDropped]_vars

\* the effect ran twice on a subscribable provider, the form was unmounted,
\* the first run's probe settled after its cleanup, and an event was heard
C30_Witness ==
  /\ Unmounted
  /\ Len(effectRuns) = 2
  /\ ethereum.t = "ethereum" /\ ethereum.on = "ok" /\ ethereum.removeListener
  /\ effectRuns[1].probe = "dropped"
  /\ \E k \in 1..Len(emitLog) : emitLog[k].heard = 1

\* a listener survives the unmount of the form
C30_ListenerLeaked == Unmounted /\ ethListeners # <<>>

====
